---------------------------- MODULE Spec2Model ----------------------------
(***************************************************************************)
(* Push-to-talk dictation: the recorder (src/audio/recorder.py) and the    *)
(* session controller (src/main.py) with its streaming worker, waiter,     *)
(* queued signals, UI timers and clipboard-swap paste.                     *)
(*                                                                         *)
(* SpecRec drives the recorder alone with every sequence of                *)
(* start/stop/finalize calls and audio callbacks.  Spec drives the         *)
(* controller of src/main.py over that recorder: the recorder revision     *)
(* with the forced handoff in start(), which is the one the session        *)
(* pipeline's statements are about.  In Spec an API key is configured and  *)
(* the input device opens; a thread's steps are its blocking calls.        *)
(***************************************************************************)
EXTENDS Integers, Sequences, FiniteSets, TLC

(* ------------------------------ bounds -------------------------------- *)

\* start() calls in SpecRec (queues created besides the constructor's)
MaxStarts == 3
\* items ever put into one queue in SpecRec
MaxLog == 3
\* audio chunks the callback delivers, over all queues
MaxChunks == 1
\* hotkey presses that start a session
MaxJobs == 2
\* cancel-all events
MaxCancels == 1
\* backend responses the streaming calls yield, over all sessions
MaxResponses == 2
\* hotkey presses made with no API key configured
MaxKeyErrors == 1
MaxDeviceErrors == 1

(* ----------------------------- constants ------------------------------ *)

\* Python None, as a stream or job reference (ids start at 1)
None == 0
\* src/audio/recorder.py:24  _AUDIO_QUEUE_SENTINEL = None
SENTINEL == "SENTINEL"
CHUNK == "chunk"

VARIABLES
    rec,        \* AudioRecorder fields: recording, stream, audio_queue, frames
    queues,     \* every queue.Queue ever created: what was put, how far it was read
    dev,        \* the audio device: streams open, streams made, peak open at once
    lastOp,     \* the last recorder call: its name, argument, outcome and pre-state
    generation, \* AppController._generation
    is_recording,   \* AppController._is_recording
    active_job, \* AppController._active_job: a job of jobs, or None
    jobs,       \* per accepted press: queue, streaming thread, result_box
    waiters,    \* the running _wait_for_streaming threads, one per release
    uiQueue,    \* signals queued to the UI thread, in emission order
    timers,     \* running single-shot QTimers, in scheduling order
    overlay,    \* TranscriptOverlay: segments, next id, visibility
    clipboard,  \* the system clipboard
    status,     \* the window's status line
    event,      \* what the step just taken did, if it ran a deferred handler
    call,       \* a library function called on its own: its inputs and its outcome
    kbd,        \* the keyboard: keys held, HotkeyListener fields, keys injected
    thr,        \* where the calling thread and the audio thread are inside the recorder
    tap         \* the tap/hold controller: clock, _press_time, _is_tap_mode

recvars == <<rec, queues, dev, lastOp>>

ctlvars == <<generation, is_recording, active_job, jobs, waiters, uiQueue,
             timers, overlay, clipboard, status, event, call, kbd, thr, tap>>

vars == <<rec, queues, dev, lastOp, generation, is_recording, active_job, jobs,
          waiters, uiQueue, timers, overlay, clipboard, status, event,
          call, kbd, thr, tap>>

\* both threads outside the recorder: no call in progress, no chunk in hand
ThreadsInit == [main |-> "idle", queue_ref |-> 0, old_queue |-> 0,
                stream_to_close |-> 0, should_stop_stream |-> FALSE,
                cb |-> "idle", cb_stream |-> 0, cb_queue |-> 0]

\* AppController.__init__ of src/controller.py: _press_time = 0.0,
\* _is_tap_mode = False; now is time.monotonic() in milliseconds
TapInit == [now |-> 0, press_time |-> 0, is_tap_mode |-> FALSE]

(* --------------------- queue.Queue and sd.InputStream ------------------ *)

\* a fresh queue.Queue(); opened records whether the start() that made it
\* got its input stream open
EmptyQueue == [log |-> <<>>, rd |-> 0, opened |-> FALSE]

\* queue.Queue() is made without a maxsize: 0, the queue has no capacity
maxsize == 0

Put(qs, q, item) == [qs EXCEPT ![q].log = Append(@, item)]

\* Queue.qsize(): the items put and not yet taken
qsize(qs, q) == Len(qs[q].log) - qs[q].rd

\* Queue.full(): never, unless the queue was made with a maxsize
full(qs, q) == maxsize > 0 /\ qsize(qs, q) >= maxsize

\* put_nowait(item) inside try / except queue.Full: pass
put_nowait(qs, q, item) == IF full(qs, q) THEN qs ELSE Put(qs, q, item)

Count(s, item) == Cardinality({i \in 1..Len(s) : s[i] = item})

Sentinels(q) == Count(queues[q].log, SENTINEL)

Chunks(q) == Count(queues[q].log, CHUNK)

RECURSIVE Sum(_, _)
Sum(f, n) == IF n = 0 THEN 0 ELSE f[n] + Sum(f, n - 1)

\* chunks the callback has delivered so far
TotalChunks == Sum([q \in 1..Len(queues) |-> Chunks(q)], Len(queues))

\* stream.stop(); stream.close()  (both ignore errors on a closed stream)
CloseStream(d, s) == [d EXCEPT !.open = @ \ {s}]

\* sd.InputStream(...); stream.start()
OpenStream(d) ==
    LET o == d.open \cup {d.made + 1}
    IN [d EXCEPT !.open = o,
                 !.made = @ + 1,
                 !.peak = IF Cardinality(o) > @ THEN Cardinality(o) ELSE @]

(* --------------------------- AudioRecorder ----------------------------- *)

RecorderInit ==
    [recording |-> FALSE, stream |-> None, audio_queue |-> 1, frames |-> 0]

\* start() without the forced handoff: returns while a recording is active
start_returns_if_recording(W, ok) ==
    IF W.rec.recording
    THEN [W EXCEPT !.raised = FALSE]
    ELSE LET newq == Len(W.queues) + 1
             rec1 == [W.rec EXCEPT !.frames = 0, !.audio_queue = newq,
                                   !.recording = TRUE]
             qs1 == Append(W.queues, EmptyQueue)
         IN IF ok
            THEN [rec |-> [rec1 EXCEPT !.stream = W.dev.made + 1],
                  queues |-> [qs1 EXCEPT ![newq].opened = TRUE],
                  dev |-> OpenStream(W.dev), raised |-> FALSE]
            ELSE [rec |-> rec1, queues |-> qs1, dev |-> W.dev, raised |-> TRUE]

\* start() that opens the new stream without closing the one it replaces
start_keeps_old_stream(W, ok) ==
    LET forced == W.rec.recording
        stream_to_close == IF forced THEN W.rec.stream ELSE None
        old_queue == W.rec.audio_queue
        newq == Len(W.queues) + 1
        rec1 == [W.rec EXCEPT !.frames = 0, !.audio_queue = newq,
                              !.recording = TRUE]
        qs1 == Append(W.queues, EmptyQueue)
        qs2 == IF stream_to_close # None THEN Put(qs1, old_queue, SENTINEL) ELSE qs1
    IN IF ok
       THEN [rec |-> [rec1 EXCEPT !.stream = W.dev.made + 1],
             queues |-> [qs2 EXCEPT ![newq].opened = TRUE],
             dev |-> OpenStream(W.dev), raised |-> FALSE]
       ELSE [rec |-> rec1, queues |-> qs2, dev |-> W.dev, raised |-> TRUE]

\* AudioRecorder.start(); ok: whether the input device opens
start(W, ok) ==
    LET forced == W.rec.recording
        stream_to_close == IF forced THEN W.rec.stream ELSE None
        old_queue == W.rec.audio_queue
        newq == Len(W.queues) + 1
        rec1 == [W.rec EXCEPT !.frames = 0, !.audio_queue = newq,
                              !.recording = TRUE]
        qs1 == Append(W.queues, EmptyQueue)
        qs2 == IF stream_to_close # None THEN Put(qs1, old_queue, SENTINEL) ELSE qs1
        dev1 == IF stream_to_close # None
                THEN CloseStream(W.dev, stream_to_close) ELSE W.dev
    IN IF ok
       THEN [rec |-> [rec1 EXCEPT !.stream = dev1.made + 1],
             queues |-> [qs2 EXCEPT ![newq].opened = TRUE],
             dev |-> OpenStream(dev1), raised |-> FALSE]
       ELSE [rec |-> rec1, queues |-> qs2, dev |-> dev1, raised |-> TRUE]

\* stop() that closes the stream but pushes no sentinel
stop_without_sentinel(W) ==
    IF ~W.rec.recording
    THEN [W EXCEPT !.raised = FALSE]
    ELSE [rec |-> [W.rec EXCEPT !.recording = FALSE, !.stream = None, !.frames = 0],
          queues |-> W.queues,
          dev |-> IF W.rec.stream # None
                  THEN CloseStream(W.dev, W.rec.stream) ELSE W.dev,
          raised |-> FALSE]

\* stop() that pushes the sentinel also when no recording is active
stop_always_sentinel(W) ==
    [rec |-> [W.rec EXCEPT !.recording = FALSE, !.stream = None, !.frames = 0],
     queues |-> Put(W.queues, W.rec.audio_queue, SENTINEL),
     dev |-> IF W.rec.stream # None
             THEN CloseStream(W.dev, W.rec.stream) ELSE W.dev,
     raised |-> FALSE]

\* what stop() returns: None when no recording is active or no frame was
\* captured, else the captured audio
stop_result(W) ==
    IF ~W.rec.recording THEN "None"
    ELSE IF W.rec.frames = 0 THEN "None" ELSE "audio"

\* AudioRecorder.stop()
stop(W) ==
    IF ~W.rec.recording
    THEN [W EXCEPT !.raised = FALSE]
    ELSE [rec |-> [W.rec EXCEPT !.recording = FALSE, !.stream = None, !.frames = 0],
          queues |-> Put(W.queues, W.rec.audio_queue, SENTINEL),
          dev |-> IF W.rec.stream # None
                  THEN CloseStream(W.dev, W.rec.stream) ELSE W.dev,
          raised |-> FALSE]

\* finalize() that stops the stream whatever queue it is given
finalize_any_queue(W, queue_ref) ==
    LET should_stop_stream == W.rec.recording
        rec1 == IF should_stop_stream
                THEN [W.rec EXCEPT !.recording = FALSE, !.stream = None]
                ELSE W.rec
        dev1 == IF should_stop_stream /\ W.rec.stream # None
                THEN CloseStream(W.dev, W.rec.stream) ELSE W.dev
    IN [rec |-> rec1, queues |-> Put(W.queues, queue_ref, SENTINEL),
        dev |-> dev1, raised |-> FALSE]

\* finalize() that stops the stream but pushes no sentinel
finalize_without_sentinel(W, queue_ref) ==
    LET should_stop_stream == W.rec.recording /\ W.rec.audio_queue = queue_ref
        rec1 == IF should_stop_stream
                THEN [W.rec EXCEPT !.recording = FALSE, !.stream = None]
                ELSE W.rec
        dev1 == IF should_stop_stream /\ W.rec.stream # None
                THEN CloseStream(W.dev, W.rec.stream) ELSE W.dev
    IN [rec |-> rec1, queues |-> W.queues, dev |-> dev1, raised |-> FALSE]

\* AudioRecorder.finalize(queue_ref)
finalize(W, queue_ref) ==
    LET should_stop_stream == W.rec.recording /\ W.rec.audio_queue = queue_ref
        rec1 == IF should_stop_stream
                THEN [W.rec EXCEPT !.recording = FALSE, !.stream = None]
                ELSE W.rec
        dev1 == IF should_stop_stream /\ W.rec.stream # None
                THEN CloseStream(W.dev, W.rec.stream) ELSE W.dev
    IN [rec |-> rec1, queues |-> Put(W.queues, queue_ref, SENTINEL),
        dev |-> dev1, raised |-> FALSE]

\* AudioRecorder._audio_callback: one chunk from the open stream
audio_callback(W) ==
    [rec |-> IF W.rec.recording THEN [W.rec EXCEPT !.frames = @ + 1] ELSE W.rec,
     queues |-> put_nowait(W.queues, W.rec.audio_queue, CHUNK),
     dev |-> W.dev, raised |-> FALSE]

World == [rec |-> rec, queues |-> queues, dev |-> dev, raised |-> FALSE]

\* what a recorder call saw before it ran
Before == [rec |-> rec, queues |-> queues, dev |-> dev]

SetWorld(W) ==
    /\ rec' = W.rec
    /\ queues' = W.queues
    /\ dev' = W.dev

(* ------------------------- the recorder alone -------------------------- *)

DeviceInit == [open |-> {}, made |-> 0, peak |-> 0]

NoOp == [name |-> "init", arg |-> 0, raised |-> FALSE,
         pre |-> [rec |-> RecorderInit, queues |-> <<EmptyQueue>>,
                  dev |-> DeviceInit]]

\* the clipboard contents the user had
USER == <<99>>

\* no library function is called on its own
NoCall == [fn |-> "none"]

\* the step just taken ran no deferred handler
NoEvent == [kind |-> "none", tag |-> -1, job |-> 0, text |-> <<>>,
            acted |-> FALSE]

\* HotkeyCombo(): no main key, the combo is not valid
NoCombo == [modifiers |-> {}, main_key |-> "none"]

\* HotkeyListener.__init__ on one platform, no key held down, and nothing
\* sent by the paste injector; pressed: a press signal was emitted and no
\* hotkey_released since
ListenerInit(is_macos) ==
    [is_macos |-> is_macos, down |-> {}, combo |-> NoCombo,
     active_modifiers |-> {}, main_key_down |-> FALSE,
     capture_mode |-> FALSE, signal |-> "none", op |-> "none", sent |-> <<>>,
     pressed |-> FALSE]

OverlayInit == [segments |-> <<>>, next_id |-> 0, visible |-> FALSE]

ControllerInit ==
    /\ generation = 0
    /\ is_recording = FALSE
    /\ active_job = None
    /\ jobs = <<>>
    /\ waiters = <<>>
    /\ uiQueue = <<>>
    /\ timers = <<>>
    /\ overlay = OverlayInit
    /\ clipboard = USER
    /\ status = "idle"
    /\ event = NoEvent

RecInit ==
    /\ rec = RecorderInit
    /\ queues = <<EmptyQueue>>
    /\ dev = DeviceInit
    /\ lastOp = NoOp
    /\ ControllerInit
    /\ kbd = ListenerInit(FALSE)
    /\ thr = ThreadsInit
    /\ tap = TapInit
    /\ call = NoCall

CallStart ==
    /\ Len(queues) <= MaxStarts
    /\ ~rec.recording \/ Len(queues[rec.audio_queue].log) < MaxLog
    /\ \E ok \in BOOLEAN :
         LET W == start(World, ok)
         IN /\ SetWorld(W)
            /\ lastOp' = [name |-> "start", arg |-> IF ok THEN 1 ELSE 0,
                          raised |-> W.raised,
                          pre |-> Before]
    /\ UNCHANGED ctlvars

CallStop ==
    /\ Len(queues[rec.audio_queue].log) < MaxLog
    /\ LET W == stop(World)
       IN /\ SetWorld(W)
          /\ lastOp' = [name |-> "stop", arg |-> 0, raised |-> W.raised,
                        pre |-> Before]
    /\ UNCHANGED ctlvars

CallFinalize ==
    /\ \E q \in 1..Len(queues) :
         /\ Len(queues[q].log) < MaxLog
         /\ LET W == finalize(World, q)
            IN /\ SetWorld(W)
               /\ lastOp' = [name |-> "finalize", arg |-> q, raised |-> W.raised,
                             pre |-> Before]
    /\ UNCHANGED ctlvars

AudioCallback ==
    /\ dev.open # {}
    /\ TotalChunks < MaxChunks
    /\ Len(queues[rec.audio_queue].log) < MaxLog
    /\ LET W == audio_callback(World)
       IN /\ SetWorld(W)
          /\ lastOp' = [name |-> "callback", arg |-> 0, raised |-> FALSE,
                        pre |-> Before]
    /\ UNCHANGED ctlvars

RecNext == CallStart \/ CallStop \/ CallFinalize \/ AudioCallback

SpecRec == RecInit /\ [][RecNext]_vars

(* -------------------------- TranscriptOverlay -------------------------- *)

\* show_at_cursor(): append a new active segment and show the widget
show_at_cursor(o) ==
    [o EXCEPT !.segments = Append(@, [id |-> o.next_id, text |-> <<>>,
                                      state |-> "active"]),
              !.next_id = @ + 1,
              !.visible = TRUE]

\* show_error_at_cursor(msg): append an error segment and show the widget
show_error_at_cursor(o) ==
    [o EXCEPT !.segments = Append(@, [id |-> o.next_id, text |-> <<>>,
                                      state |-> "error"]),
              !.next_id = @ + 1,
              !.visible = TRUE]

\* set_text(text): update the last segment if it is the active one
set_text(o, text) ==
    IF o.segments # <<>> /\ o.segments[Len(o.segments)].state = "active"
    THEN [o EXCEPT !.segments[Len(o.segments)].text = text]
    ELSE o

\* the index of the last active segment, 0 if there is none
LastActive(o) ==
    LET A == {i \in 1..Len(o.segments) : o.segments[i].state = "active"}
    IN IF A = {} THEN 0 ELSE CHOOSE i \in A : \A k \in A : k <= i

\* freeze_active_segment(): the overlay afterwards
freeze_active_segment(o) ==
    IF LastActive(o) = 0 THEN o
    ELSE [o EXCEPT !.segments[LastActive(o)].state = "processing"]

\* freeze_active_segment(): the id it returns
frozen_seg_id(o) ==
    IF LastActive(o) = 0 THEN -1 ELSE o.segments[LastActive(o)].id

\* complete_segment(seg_id): remove the segment, hide when none is left
complete_segment(o, seg_id) ==
    LET left == SelectSeq(o.segments, LAMBDA sg : sg.id # seg_id)
    IN [o EXCEPT !.segments = left,
                 !.visible = IF left = <<>> THEN FALSE ELSE @]

\* dismiss(): clear all segments and hide
dismiss(o) == [o EXCEPT !.segments = <<>>, !.visible = FALSE]

(* ------------------------------ QTimers -------------------------------- *)

\* a running single-shot timer; tracked: it is in _pending_timers; ref: the
\* queue or segment its callback captured, arg: the clipboard contents it
\* captured
Timer(kind, delay, tracked, gen, ref, arg, job) ==
    [kind |-> kind, delay |-> delay, tracked |-> tracked, gen |-> gen,
     ref |-> ref, arg |-> arg, job |-> job]

\* the delays of the single-shot timers, in ms
TailDelay == 200
PasteDelay == 80
RestoreDelay == 350
ErrorDelay == 4000

\* timer i is due before every other running timer: no timer started
\* earlier has a delay that is not longer
Due(i) == \A k \in 1..(i - 1) : timers[k].delay > timers[i].delay

Remove(s, i) == SubSeq(s, 1, i - 1) \o SubSeq(s, i + 1, Len(s))

\* _cancel_pending_timers(): stop every tracked timer
cancel_pending_timers_none(ts) == ts

\* _cancel_pending_timers() that stops every running timer
cancel_pending_timers_all(ts) == <<>>

cancel_pending_timers(ts) == SelectSeq(ts, LAMBDA t : ~t.tracked)

(* ---------------------------- generation ------------------------------- *)

\* the generation checks of the deferred steps, one per place
waiter_is_stale(g) == g # generation

never_stale(g) == FALSE

done_is_stale(g) == g # generation

failed_never_stale(g) == FALSE

failed_is_stale(g) == g # generation

paste_is_stale(g) == g # generation

restore_is_stale(g) == g # generation

\* what a deferred handler did: kind of step, the generation it was tagged
\* with, its session, its text, and whether it acted or returned as stale
Effect(kind, tag, job, text, acted) ==
    [kind |-> kind, tag |-> tag, job |-> job, text |-> text, acted |-> acted]

\* text of the streaming result: the finals joined; None (empty) if none
NoText == <<>>

\* postprocess(text, prompt) when the rewrite backend answers
Rewrite(text) == <<0>> \o text

(* --------------------------- AppController ----------------------------- *)

\* a session's job: its queue, its streaming thread and its result_box;
\* gen0 is the generation current at the press, released: the release of
\* the session was accepted
NewJob(q) ==
    [queue |-> q, pc |-> "streaming", eos |-> FALSE, finals |-> <<>>,
     nresp |-> 0, result_box |-> NoText, gen0 |-> generation,
     released |-> FALSE]

\* the number of start() calls in which the input device did not open
DeviceErrors == Cardinality({q \in 1..Len(queues) : q > 1 /\ ~queues[q].opened})

\* on_start_recording that looks at no flag before it starts a session
on_start_recording_unguarded(has_key, ok) ==
    /\ Len(jobs) < MaxJobs
    /\ overlay' = show_at_cursor(overlay)
    /\ status' = "recording"
    /\ LET W == start(World, TRUE)
       IN /\ SetWorld(W)
          /\ jobs' = Append(jobs, NewJob(W.rec.audio_queue))
    /\ is_recording' = TRUE
    /\ active_job' = Len(jobs) + 1
    /\ event' = NoEvent
    /\ UNCHANGED <<lastOp, call, kbd, thr, tap, generation, waiters, uiQueue, timers,
                   clipboard>>

\* on_start_recording(): a hotkey press; has_key: an API key is configured;
\* ok: the input device opens
on_start_recording(has_key, ok) ==
    IF is_recording
    THEN /\ event' = Effect("press", generation, None, NoText, FALSE)
         /\ UNCHANGED <<rec, queues, dev, lastOp, call, kbd, thr, tap, generation,
                        is_recording, active_job, jobs, waiters, uiQueue,
                        timers, overlay, clipboard, status>>
    ELSE IF ~has_key
    THEN /\ overlay.next_id - Len(jobs) < MaxKeyErrors
         /\ overlay' = show_error_at_cursor(overlay)
         /\ timers' = Append(timers, Timer("error_dismiss", ErrorDelay, FALSE,
                                           generation, overlay.next_id, <<>>,
                                           None))
         /\ event' = Effect("press_no_key", generation, None, NoText, FALSE)
         /\ UNCHANGED <<rec, queues, dev, lastOp, call, kbd, thr, tap, generation, is_recording,
                       active_job, jobs, waiters, uiQueue, clipboard, status>>
    ELSE IF ~ok
    THEN \* recorder.start() raises: the lines after it are not run
         /\ DeviceErrors < MaxDeviceErrors
         /\ overlay' = show_at_cursor(overlay)
         /\ status' = "recording"
         /\ SetWorld(start(World, FALSE))
         /\ event' = Effect("press_raised", generation, None, NoText, FALSE)
         /\ UNCHANGED <<lastOp, call, kbd, thr, tap, generation, is_recording,
                        active_job, jobs, waiters, uiQueue, timers, clipboard>>
    ELSE /\ Len(jobs) < MaxJobs
         /\ overlay' = show_at_cursor(overlay)
         /\ status' = "recording"
         /\ LET W == start(World, TRUE)
            IN /\ SetWorld(W)
               /\ jobs' = Append(jobs, NewJob(W.rec.audio_queue))
         /\ is_recording' = TRUE
         /\ active_job' = Len(jobs) + 1
         /\ event' = NoEvent
         /\ UNCHANGED <<lastOp, call, kbd, thr, tap, generation, waiters, uiQueue, timers,
                       clipboard>>

\* a hotkey press that starts a session: an API key is configured and the
\* device opens; the presses that are ignored, or fail, are steps of
\* SpecHotkey
Press == ~is_recording /\ on_start_recording(TRUE, TRUE)

\* on_stop_recording that looks at no flag before it ends a session
on_stop_recording_unguarded(prompt) ==
    /\ active_job # None
    /\ Len(waiters) < MaxJobs
    /\ is_recording' = FALSE
    /\ timers' = Append(timers, Timer("finalize", TailDelay, FALSE,
                                      generation, rec.audio_queue, <<>>,
                                      active_job))
    /\ overlay' = freeze_active_segment(overlay)
    /\ status' = "transcribing"
    /\ waiters' = Append(waiters,
                         [job |-> active_job, seg_id |-> frozen_seg_id(overlay),
                          generation |-> generation, prompt |-> prompt,
                          pc |-> "join", text |-> NoText])
    /\ jobs' = [jobs EXCEPT ![active_job].released = TRUE]
    /\ event' = NoEvent
    /\ UNCHANGED <<rec, queues, dev, lastOp, call, kbd, thr, tap, generation, active_job,
                   uiQueue, clipboard>>

\* on_stop_recording(): a hotkey release; prompt: a post-processing prompt
\* is configured
on_stop_recording(prompt) ==
    IF ~is_recording
    THEN /\ event' = Effect("release", generation, None, NoText, FALSE)
         /\ UNCHANGED <<rec, queues, dev, lastOp, call, kbd, thr, tap, generation,
                        is_recording, active_job, jobs, waiters, uiQueue,
                        timers, overlay, clipboard, status>>
    ELSE LET captured_queue == rec.audio_queue
             seg_id == frozen_seg_id(overlay)
             job == active_job
         IN /\ is_recording' = FALSE
            /\ timers' = Append(timers, Timer("finalize", TailDelay, FALSE,
                                              generation, captured_queue, <<>>,
                                              job))
            /\ overlay' = freeze_active_segment(overlay)
            /\ status' = "transcribing"
            /\ waiters' = Append(waiters,
                                 [job |-> job, seg_id |-> seg_id,
                                  generation |-> generation, prompt |-> prompt,
                                  pc |-> "join", text |-> NoText])
            /\ jobs' = [jobs EXCEPT ![job].released = TRUE]
            /\ event' = NoEvent
            /\ UNCHANGED <<rec, queues, dev, lastOp, call, kbd, thr, tap, generation, active_job,
                          uiQueue, clipboard>>

\* a hotkey release that ends a recording; the releases that are ignored are
\* steps of SpecHotkey
Release == is_recording /\ \E prompt \in BOOLEAN : on_stop_recording(prompt)

\* on_cancel_all() that leaves the recorder running
on_cancel_all_without_stop ==
    /\ generation < MaxCancels
    /\ generation' = generation + 1
    /\ is_recording' = FALSE
    /\ active_job' = None
    /\ overlay' = dismiss(overlay)
    /\ timers' = cancel_pending_timers(timers)
    /\ status' = "idle"
    /\ event' = NoEvent
    /\ UNCHANGED <<rec, queues, dev, lastOp, call, kbd, thr, tap, jobs, waiters, uiQueue, clipboard>>

\* on_cancel_all() that leaves the recording flag and the active job
on_cancel_all_keeps_session ==
    /\ generation < MaxCancels
    /\ generation' = generation + 1
    /\ SetWorld(stop(World))
    /\ overlay' = dismiss(overlay)
    /\ timers' = cancel_pending_timers(timers)
    /\ status' = "idle"
    /\ event' = NoEvent
    /\ UNCHANGED <<lastOp, call, kbd, thr, tap, is_recording, active_job, jobs, waiters,
                   uiQueue, clipboard>>

\* on_cancel_all(): the cancel key
on_cancel_all ==
    /\ generation < MaxCancels
    /\ generation' = generation + 1
    /\ is_recording' = FALSE
    /\ active_job' = None
    /\ SetWorld(stop(World))
    /\ overlay' = dismiss(overlay)
    /\ timers' = cancel_pending_timers(timers)
    /\ status' = "idle"
    /\ event' = NoEvent
    /\ UNCHANGED <<lastOp, call, kbd, thr, tap, jobs, waiters, uiQueue, clipboard>>

(* ------------------ _streaming_worker / transcribe_streaming ----------- *)

\* _audio_generator: the request stream reads the next item of the queue
WorkerGet(j) ==
    /\ jobs[j].pc = "streaming"
    /\ ~jobs[j].eos
    /\ LET q == jobs[j].queue
       IN /\ queues[q].rd < Len(queues[q].log)
          /\ queues' = [queues EXCEPT ![q].rd = @ + 1]
          /\ jobs' = [jobs EXCEPT ![j].eos =
                         (queues[q].log[queues[q].rd + 1] = SENTINEL)]
    /\ event' = NoEvent
    /\ UNCHANGED <<rec, dev, lastOp, call, kbd, thr, tap, generation, is_recording, active_job,
                  waiters, uiQueue, timers, overlay, clipboard, status>>

\* an interim signal that overtakes the signals already queued
EmitInterim_front(j, text) ==
    <<[sig |-> "interim", text |-> text, seg_id |-> -1, generation |-> -1,
       job |-> j, seq |-> jobs[j].nresp + 1]>> \o uiQueue

\* _on_interim_callback: interim_transcript.emit(text), queued to the UI
\* thread; seq: the response of the session it was made from
EmitInterim(j, text) ==
    Append(uiQueue, [sig |-> "interim", text |-> text, seg_id |-> -1,
                     generation |-> -1, job |-> j, seq |-> jobs[j].nresp + 1])

\* the response loop: one response with one result, final or interim; the
\* transcript of a final of job j is the token j, of an interim -j
WorkerResponse(j, is_final) ==
    /\ jobs[j].pc = "streaming"
    /\ Sum([k \in 1..Len(jobs) |-> jobs[k].nresp], Len(jobs)) < MaxResponses
    /\ LET final_transcripts == IF is_final THEN Append(jobs[j].finals, j)
                                ELSE jobs[j].finals
           interim_parts == IF is_final THEN <<>> ELSE <<-j>>
           current == final_transcripts \o interim_parts
       IN /\ jobs' = [jobs EXCEPT ![j].finals = final_transcripts,
                                  ![j].nresp = @ + 1]
          /\ uiQueue' = EmitInterim(j, current)
    /\ event' = NoEvent
    /\ UNCHANGED <<rec, queues, dev, lastOp, call, kbd, thr, tap, generation, is_recording,
                  active_job, waiters, timers, overlay, clipboard, status>>

\* a worker whose end moves the generation
WorkerEnd_bumps_generation(j) ==
    /\ jobs[j].pc = "streaming"
    /\ generation < MaxCancels
    /\ generation' = generation + 1
    /\ jobs' = [jobs EXCEPT ![j].pc = "done", ![j].result_box = jobs[j].finals]
    /\ event' = NoEvent
    /\ UNCHANGED <<rec, queues, dev, lastOp, call, kbd, thr, tap, is_recording,
                  active_job, waiters, uiQueue, timers, overlay, clipboard,
                  status>>

\* the response stream ends (the request stream was closed by the sentinel,
\* or the backend raised): result_box[0] = the finals joined, or None
WorkerEnd(j) ==
    /\ jobs[j].pc = "streaming"
    /\ jobs' = [jobs EXCEPT ![j].pc = "done", ![j].result_box = jobs[j].finals]
    /\ event' = NoEvent
    /\ UNCHANGED <<rec, queues, dev, lastOp, call, kbd, thr, tap, generation, is_recording,
                  active_job, waiters, uiQueue, timers, overlay, clipboard,
                  status>>

(* -------------------------- _wait_for_streaming ------------------------ *)

\* an emit that reports every outcome as done
Emit_always_done(w, sig, text) ==
    Append(uiQueue, [sig |-> "done", text |-> text, seg_id |-> waiters[w].seg_id,
                     generation |-> waiters[w].generation,
                     job |-> waiters[w].job, seq |-> 0])

\* transcription_done.emit / transcription_failed.emit: queued to the UI thread
Emit(w, sig, text) ==
    Append(uiQueue, [sig |-> sig, text |-> text, seg_id |-> waiters[w].seg_id,
                     generation |-> waiters[w].generation,
                     job |-> waiters[w].job, seq |-> 0])

\* a waiter that reads the result_box without joining the streaming thread
WaiterJoin_without_join(w) ==
    /\ waiters[w].pc = "join"
    /\ LET text == jobs[waiters[w].job].result_box
       IN IF waiter_is_stale(waiters[w].generation)
          THEN /\ waiters' = Remove(waiters, w)
               /\ UNCHANGED uiQueue
          ELSE IF text = NoText
          THEN /\ waiters' = Remove(waiters, w)
               /\ uiQueue' = Emit(w, "failed", NoText)
          ELSE IF waiters[w].prompt
          THEN /\ waiters' = [waiters EXCEPT ![w].pc = "postprocess",
                                             ![w].text = text]
               /\ UNCHANGED uiQueue
          ELSE /\ waiters' = Remove(waiters, w)
               /\ uiQueue' = Emit(w, "done", text)
    /\ event' = NoEvent
    /\ UNCHANGED <<rec, queues, dev, lastOp, call, kbd, thr, tap, generation, is_recording,
                  active_job, jobs, timers, overlay, clipboard, status>>

\* thread.join() returned: first generation check, read of the result_box;
\* without a prompt postprocess() returns the transcript at once, and the
\* second generation check and the emit follow; a waiter thread that
\* returned is dropped from waiters
WaiterJoin(w) ==
    /\ waiters[w].pc = "join"
    /\ waiters[w].job = None \/ jobs[waiters[w].job].pc = "done"
    /\ LET text == IF waiters[w].job = None THEN NoText
                   ELSE jobs[waiters[w].job].result_box
       IN IF waiter_is_stale(waiters[w].generation)
          THEN /\ waiters' = Remove(waiters, w)
               /\ UNCHANGED uiQueue
          ELSE IF text = NoText
          THEN /\ waiters' = Remove(waiters, w)
               /\ uiQueue' = Emit(w, "failed", NoText)
          ELSE IF waiters[w].prompt
          THEN /\ waiters' = [waiters EXCEPT ![w].pc = "postprocess",
                                             ![w].text = text]
               /\ UNCHANGED uiQueue
          ELSE /\ waiters' = Remove(waiters, w)
               /\ uiQueue' = Emit(w, "done", text)
    /\ event' = NoEvent
    /\ UNCHANGED <<rec, queues, dev, lastOp, call, kbd, thr, tap, generation, is_recording,
                  active_job, jobs, timers, overlay, clipboard, status>>

\* postprocess() returned (rewritten, or the transcript unchanged on any
\* failure): second generation check, then the emit
WaiterPostprocess(w, rewritten) ==
    /\ waiters[w].pc = "postprocess"
    /\ LET text == IF rewritten THEN Rewrite(waiters[w].text)
                   ELSE waiters[w].text
       IN /\ waiters' = Remove(waiters, w)
          /\ uiQueue' = IF waiter_is_stale(waiters[w].generation) THEN uiQueue
                        ELSE Emit(w, "done", text)
    /\ event' = NoEvent
    /\ UNCHANGED <<rec, queues, dev, lastOp, call, kbd, thr, tap, generation, is_recording,
                  active_job, jobs, timers, overlay, clipboard, status>>

(* ------------------------ UI-thread deliveries ------------------------- *)

\* _on_transcription_done(text, seg_id, generation)
on_transcription_done(s) ==
    IF done_is_stale(s.generation)
    THEN /\ event' = (Effect("done", s.generation, s.job, s.text, FALSE))
         /\ UNCHANGED <<overlay, clipboard, timers, status>>
    ELSE LET saved_mime == clipboard
             o == complete_segment(overlay, s.seg_id)
         IN /\ overlay' = o
            /\ clipboard' = s.text
            /\ timers' = timers \o
                 << Timer("paste", PasteDelay, TRUE, s.generation, 0, s.text, s.job),
                    Timer("restore", RestoreDelay, TRUE, s.generation, 0, saved_mime,
                          s.job) >>
            /\ status' = IF ~o.visible THEN "idle" ELSE status
            /\ event' = (Effect("done", s.generation, s.job, s.text, TRUE))

\* _on_transcription_failed(msg, seg_id, generation)
on_transcription_failed(s) ==
    IF failed_is_stale(s.generation)
    THEN /\ event' = (Effect("failed", s.generation, s.job, s.text, FALSE))
         /\ UNCHANGED <<overlay, clipboard, timers, status>>
    ELSE LET o == complete_segment(overlay, s.seg_id)
         IN /\ overlay' = o
            /\ status' = IF ~o.visible THEN "idle" ELSE status
            /\ event' = (Effect("failed", s.generation, s.job, s.text, TRUE))
            /\ UNCHANGED <<clipboard, timers>>

\* interim_transcript -> TranscriptOverlay.set_text(text)
on_interim(s) ==
    /\ overlay' = set_text(overlay, s.text)
    /\ event' = NoEvent
    /\ UNCHANGED <<clipboard, timers, status>>

\* the UI thread takes the next queued signal and runs its slot
HandleSignal ==
    /\ uiQueue # <<>>
    /\ LET s == Head(uiQueue)
       IN CASE s.sig = "done" -> on_transcription_done(s)
            [] s.sig = "failed" -> on_transcription_failed(s)
            [] OTHER -> on_interim(s)
    /\ uiQueue' = Tail(uiQueue)
    /\ UNCHANGED <<rec, queues, dev, lastOp, call, kbd, thr, tap, generation, is_recording,
                   active_job, jobs, waiters>>

\* the tail timer of a release: recorder.finalize(captured_queue)
tail_finalize_current(t) ==
    /\ SetWorld(finalize(World, rec.audio_queue))
    /\ event' = NoEvent
    /\ UNCHANGED <<overlay, clipboard>>

tail_finalize(t) ==
    /\ SetWorld(finalize(World, t.ref))
    /\ event' = NoEvent
    /\ UNCHANGED <<overlay, clipboard>>

\* _do_paste(): the paste keystroke; the focused application reads the clipboard
do_paste(t) ==
    /\ event' = Effect("paste", t.gen, t.job, clipboard, ~paste_is_stale(t.gen))
    /\ UNCHANGED <<rec, queues, dev, overlay, clipboard>>

\* _restore(): put the saved contents back
restore_skipped(t) ==
    /\ event' = Effect("restore", t.gen, t.job, t.arg, ~restore_is_stale(t.gen))
    /\ UNCHANGED <<rec, queues, dev, overlay, clipboard>>

restore(t) ==
    /\ clipboard' = IF restore_is_stale(t.gen) THEN clipboard ELSE t.arg
    /\ event' = Effect("restore", t.gen, t.job, t.arg, ~restore_is_stale(t.gen))
    /\ UNCHANGED <<rec, queues, dev, overlay>>

\* the error segment's auto-dismiss: complete_segment(seg_id)
error_dismiss(t) ==
    /\ overlay' = complete_segment(overlay, t.ref)
    /\ event' = NoEvent
    /\ UNCHANGED <<rec, queues, dev, clipboard>>

\* a single-shot timer times out: _run() drops it from _pending_timers and
\* calls its callback
TimerFire(i) ==
    /\ Due(i)
    /\ timers' = Remove(timers, i)
    /\ LET t == timers[i]
       IN CASE t.kind = "finalize" -> tail_finalize(t)
            [] t.kind = "paste" -> do_paste(t)
            [] t.kind = "restore" -> restore(t)
            [] OTHER -> error_dismiss(t)
    /\ UNCHANGED <<lastOp, call, kbd, thr, tap, generation, is_recording, active_job, jobs,
                   waiters, uiQueue, status>>

\* the open input stream delivers a chunk to _audio_callback
AudioChunk ==
    /\ dev.open # {}
    /\ TotalChunks < MaxChunks
    /\ SetWorld(audio_callback(World))
    /\ event' = NoEvent
    /\ UNCHANGED <<lastOp, call, kbd, thr, tap, generation, is_recording, active_job, jobs,
                  waiters, uiQueue, timers, overlay, clipboard, status>>

Init ==
    /\ rec = RecorderInit
    /\ queues = <<EmptyQueue>>
    /\ dev = DeviceInit
    /\ lastOp = NoOp
    /\ ControllerInit
    /\ kbd = ListenerInit(FALSE)
    /\ thr = ThreadsInit
    /\ tap = TapInit
    /\ call = NoCall

Next ==
    \/ Press
    \/ Release
    \/ on_cancel_all
    \/ \E j \in 1..Len(jobs) : WorkerGet(j)
    \/ \E j \in 1..Len(jobs) : \E is_final \in BOOLEAN : WorkerResponse(j, is_final)
    \/ \E j \in 1..Len(jobs) : WorkerEnd(j)
    \/ \E w \in 1..Len(waiters) : WaiterJoin(w)
    \/ \E w \in 1..Len(waiters) : \E rewritten \in BOOLEAN : WaiterPostprocess(w, rewritten)
    \/ HandleSignal
    \/ \E i \in 1..Len(timers) : TimerFire(i)
    \/ AudioChunk

Spec == Init /\ [][Next]_vars

(* ------------------- the recorder's claims (SpecRec) ------------------- *)

\* the recorder is no longer recording into queue q
Ended(q) == ~(rec.recording /\ rec.audio_queue = q)

Last(s) == s[Len(s)]

\* C3 as stated: every queue a start() opened a stream for receives the
\* end-of-stream sentinel exactly once: never twice, and never zero times
\* once its session has ended.
C3_ExactlyOnce ==
    \A q \in 1..Len(queues) :
        queues[q].opened =>
            /\ Sentinels(q) <= 1
            /\ Ended(q) => Sentinels(q) >= 1

\* C3 amended: every queue whose start() opened its input stream holds at
\* least one sentinel as soon as the recorder no longer records into it
\* (a later finalize of the same queue adds another one).
C3_AtLeastOnce ==
    \A q \in 1..Len(queues) :
        (queues[q].opened /\ Ended(q)) => Sentinels(q) >= 1

\* a finalize has just pushed a second sentinel into a queue that stop() or
\* a superseding start() had already terminated
C3_Witness ==
    /\ lastOp.name = "finalize"
    /\ queues[lastOp.arg].opened
    /\ Sentinels(lastOp.arg) = 2

\* C4: for every sequence of start/stop/finalize calls at most one physical
\* input stream is open at any instant, inside start() included: the old
\* stream is closed before the new one is opened.
C4_OneStream ==
    /\ Cardinality(dev.open) <= 1
    /\ dev.peak <= 1
    /\ dev.open # {} => dev.open = {rec.stream}

\* start() has just replaced a live stream by a new one
C4_Witness ==
    /\ lastOp.name = "start"
    /\ lastOp.pre.rec.recording
    /\ lastOp.pre.rec.stream \in lastOp.pre.dev.open
    /\ rec.stream \in dev.open
    /\ rec.stream # lastOp.pre.rec.stream

\* a start() call that found a recording active on a live stream
ForcedStart ==
    /\ lastOp.name = "start"
    /\ lastOp.pre.rec.recording
    /\ lastOp.pre.rec.stream \in lastOp.pre.dev.open

\* C5: start() while a recording is active raises only if the device fails
\* to open, pushes the sentinel into the old queue, closes the old stream
\* before the new one opens, and installs a brand-new empty queue, distinct
\* from every earlier one, as the current queue.
C5_ForcedHandoff ==
    ForcedStart =>
        LET old == lastOp.pre.rec.audio_queue
        IN /\ lastOp.raised <=> lastOp.arg = 0
           /\ queues[old].log = Append(lastOp.pre.queues[old].log, SENTINEL)
           /\ lastOp.pre.rec.stream \notin dev.open
           /\ dev.peak <= 1
           /\ rec.audio_queue \notin 1..Len(lastOp.pre.queues)
           /\ rec.audio_queue \in 1..Len(queues)
           /\ queues[rec.audio_queue].log = <<>>
           /\ rec.recording
           /\ lastOp.arg = 1 => rec.stream \in dev.open

\* the forced handoff happened with the device opening and the old queue
\* holding audio
C5_Witness ==
    /\ ForcedStart
    /\ lastOp.arg = 1
    /\ ~lastOp.raised
    /\ Chunks(lastOp.pre.rec.audio_queue) > 0

\* a finalize(q) call with q no longer the recorder's current queue
StaleFinalize ==
    /\ lastOp.name = "finalize"
    /\ lastOp.arg # lastOp.pre.rec.audio_queue

\* C6: finalize(q) with a queue q that is not the current queue leaves the
\* recording flag, the physical stream and the current queue unchanged and
\* appends the sentinel to q.
C6_StaleFinalize ==
    StaleFinalize =>
        /\ rec = lastOp.pre.rec
        /\ dev = lastOp.pre.dev
        /\ queues = Put(lastOp.pre.queues, lastOp.arg, SENTINEL)
        /\ ~lastOp.raised

\* finalize of an old queue ran while a newer recording was live
C6_Witness ==
    /\ StaleFinalize
    /\ rec.recording
    /\ rec.stream \in dev.open
    /\ lastOp.arg > 1
    /\ lastOp.arg < rec.audio_queue

(* -------------------- the controller's claims (Spec) ------------------- *)

\* the step just taken ran a deferred handler that took effect
Acted == event.kind # "none" /\ event.acted

\* a paste or restore timer of a delivery is still running
PasteOrRestorePending ==
    \E i \in 1..Len(timers) : timers[i].kind \in {"paste", "restore"}

\* C1: whatever the interleaving of worker completion, waiter progress,
\* timer firing and cancel, a delivery (done or failed), a paste keystroke
\* or a clipboard restore takes effect only while the generation it was
\* tagged with is still the current one: none tagged G acts after the
\* counter has moved to G+1.
C1_GenerationInvariant == Acted => event.tag = generation

\* a done signal tagged with a generation that a cancel has since replaced
\* reached its handler, which returned without doing anything
C1_Witness ==
    /\ event.kind = "done"
    /\ ~event.acted
    /\ event.tag < generation
    /\ clipboard = USER

\* C2 as stated: once a newer session has been started by an accepted press,
\* no earlier session has its result delivered, written to the clipboard or
\* pasted.
C2_SupersededByPress == Acted => event.job = Len(jobs)

\* C2: only a cancel supersedes a session: a delivery, clipboard write,
\* paste or restore takes effect for a session only while no cancel has
\* happened since its press; a newer press does not invalidate it.
C2_SupersededByCancel == Acted => jobs[event.job].gen0 = generation

\* the result of the first session is delivered while the second session,
\* started by an accepted press, exists
C2_Witness ==
    /\ event.kind = "done"
    /\ event.acted
    /\ event.job = 1
    /\ Len(jobs) = 2
    /\ clipboard = event.text

\* C7: scenario C. When the tail finalize scheduled by a release fires while
\* a later session is recording, it appends the sentinel to the queue the
\* release captured and to no other; the later session has its own queue,
\* and its recording flag, its open stream and its unterminated queue are
\* left as they were.
C7_TailFinalize ==
    [][\A i \in 1..Len(timers) :
         (/\ timers[i].kind = "finalize"
          /\ Due(i)
          /\ timers' = Remove(timers, i)
          /\ is_recording
          /\ active_job # timers[i].job)
         => LET first == timers[i].ref
                second == jobs[active_job].queue
            IN /\ first = jobs[timers[i].job].queue
               /\ second # first
               /\ second = rec.audio_queue
               /\ queues'[first].log = Append(queues[first].log, SENTINEL)
               /\ \A q \in 1..Len(queues) : q # first => queues'[q] = queues[q]
               /\ rec' = rec
               /\ dev' = dev
               /\ rec.recording
               /\ dev.open = {rec.stream}
               /\ Sentinels(second) = 0]_vars

\* the first session's tail finalize has fired during the second session's
\* recording: the first queue holds the sentinel of the handoff and the one
\* of the finalize, the second session is still recording
C7_Witness ==
    /\ Len(jobs) = 2
    /\ is_recording
    /\ active_job = 2
    /\ generation = 0
    /\ \A i \in 1..Len(timers) : timers[i].kind # "finalize"
    /\ Sentinels(jobs[1].queue) = 2
    /\ rec.recording
    /\ rec.audio_queue = jobs[2].queue
    /\ Sentinels(jobs[2].queue) = 0

\* session j was cancelled between its press and its release
CancelledBeforeRelease(j) ==
    jobs[j].gen0 < generation /\ ~jobs[j].released

\* C8: scenario B. A session cancelled before its release has its queue
\* terminated by a sentinel, and nothing is ever delivered, written to the
\* clipboard or pasted for it: it has no waiter, no queued signal, no paste
\* or restore timer, and no handler runs for it, whatever its streaming
\* worker produces afterwards.
C8_CancelBeforeRelease ==
    \A j \in 1..Len(jobs) :
        CancelledBeforeRelease(j) =>
            /\ Sentinels(jobs[j].queue) >= 1
            /\ \A w \in 1..Len(waiters) : waiters[w].job # j
            /\ \A k \in 1..Len(uiQueue) :
                   uiQueue[k].job = j => uiQueue[k].sig = "interim"
            /\ \A i \in 1..Len(timers) : timers[i].job # j
            /\ event.kind # "none" => event.job # j

\* after the cancel the backend yielded a final result and the streaming
\* worker completed; the clipboard is untouched
C8_Witness ==
    /\ Len(jobs) = 1
    /\ CancelledBeforeRelease(1)
    /\ jobs[1].pc = "done"
    /\ jobs[1].result_box # NoText
    /\ uiQueue = <<>>
    /\ clipboard = USER

\* one session so far, and no cancel
SingleSession == Len(jobs) <= 1 /\ generation = 0

C9_Delivery ==
    SingleSession =>
        /\ (event.kind = "done" /\ event.acted) =>
               /\ event.text \in {jobs[1].result_box, Rewrite(jobs[1].result_box)}
               /\ jobs[1].result_box # NoText
               /\ \A k \in 1..Len(jobs[1].result_box) : jobs[1].result_box[k] = 1
               /\ clipboard = event.text
               /\ ~is_recording
               /\ status = "idle"
        /\ (event.kind = "paste" /\ event.acted) => event.text = clipboard
        /\ (event.kind = "restore" /\ event.acted) => clipboard = USER
        /\ clipboard # USER =>
               \E i \in 1..Len(timers) :
                   timers[i].kind = "restore" /\ timers[i].arg = USER
        /\ is_recording <=> status = "recording"

C9_Transitions ==
    SingleSession' =>
        /\ (~is_recording /\ is_recording') => jobs = <<>>
        /\ (is_recording /\ ~is_recording') =>
               ~jobs[1].released /\ jobs'[1].released
        /\ status' # status =>
               <<status, status'>> \in {<<"idle", "recording">>,
                                        <<"recording", "transcribing">>,
                                        <<"transcribing", "idle">>}

\* C9: scenario A. In a run with one session and no cancel the controller
\* goes from idle to recording only at the first press and leaves recording
\* only at the release, so Idle -> Recording -> Idle happens once; the text
\* delivered is the worker's result, made of final transcripts only (or its
\* rewrite), never an interim; and the clipboard differs from the user's
\* contents only while the restore timer holding them is running, so it is
\* back once that timer has fired.
C9_SingleSession == []C9_Delivery /\ [][C9_Transitions]_vars

\* the single session got a chunk, an interim and a final, was delivered,
\* and its restore timer has just fired
C9_Witness ==
    /\ SingleSession
    /\ event.kind = "restore"
    /\ event.acted
    /\ Chunks(jobs[1].queue) >= 1
    /\ jobs[1].nresp = 2
    /\ jobs[1].result_box = <<1>>
    /\ clipboard = USER
    /\ status = "idle"

\* C10 as stated: once every scheduled paste and restore step has fired or
\* been cancelled, the clipboard holds what the user had before the first
\* delivery wrote to it.
C10_ClipboardPreserved == ~PasteOrRestorePending => clipboard = USER

\* C11: a paste or restore step scheduled before a cancel never fires after
\* it: every tracked timer still running was scheduled under the current
\* generation, and a paste or restore callback that runs was scheduled under
\* the current generation.
C11_CancelledTimersNeverFire ==
    /\ \A i \in 1..Len(timers) :
           timers[i].tracked => timers[i].gen = generation
    /\ event.kind \in {"paste", "restore"} => event.tag = generation

\* the only session was delivered before the cancel and the cancel came
\* before its restore: the clipboard still holds the transcript, no paste
\* or restore timer is left
C11_Witness ==
    /\ generation = 1
    /\ Len(jobs) = 1
    /\ jobs[1].gen0 = 0
    /\ clipboard = jobs[1].result_box
    /\ clipboard # USER
    /\ ~PasteOrRestorePending

(* ------------------- more recorder claims (SpecRec) -------------------- *)

\* C12: stop() leaves the recorder not recording, and a stop() called when
\* the recorder is not recording, as the second of two stop() calls in a
\* row is, returns None, does not raise, changes no recorder or device state
\* and puts nothing into any queue.
C12_StopIdempotent ==
    lastOp.name = "stop" =>
        /\ ~rec.recording
        /\ ~lastOp.raised
        /\ ~lastOp.pre.rec.recording =>
               /\ stop_result(lastOp.pre) = "None"
               /\ rec = lastOp.pre.rec
               /\ queues = lastOp.pre.queues
               /\ dev = lastOp.pre.dev

\* a stop() was called on a recorder that an earlier call had already
\* stopped: the current queue ends with the one sentinel of that call
C12_Witness ==
    /\ lastOp.name = "stop"
    /\ ~lastOp.pre.rec.recording
    /\ lastOp.pre.rec.stream = None
    /\ queues[rec.audio_queue].opened
    /\ Sentinels(rec.audio_queue) = 1
    /\ Last(queues[rec.audio_queue].log) = SENTINEL

(* ----------------------- postprocess (SpecPost) ------------------------ *)

\* longest text of an input or a backend answer
MaxText == 2

\* the characters of a text: whitespace and a letter
Chars == {" ", "a"}

\* str values up to MaxText characters
Texts == UNION {[1..n -> Chars] : n \in 0..MaxText}

RECURSIVE LStrip(_)
LStrip(s) == IF s # <<>> /\ Head(s) = " " THEN LStrip(Tail(s)) ELSE s

RECURSIVE RStrip(_)
RStrip(s) ==
    IF s # <<>> /\ s[Len(s)] = " " THEN RStrip(SubSeq(s, 1, Len(s) - 1)) ELSE s

\* str.strip()
Strip(s) == RStrip(LStrip(s))

\* what the rewrite backend does with a request: the client cannot be made
\* (no API key), generate_content raises, the response carries no text, or
\* it carries one
Backends ==
    {[kind |-> k, text |-> <<>>] : k \in {"no_client", "raises", "no_text"}}
        \cup {[kind |-> "text", text |-> t] : t \in Texts}

\* postprocess() whose backend call is not guarded by try/except
postprocess_unguarded(transcript, prompt, backend) ==
    LET p == Strip(prompt)
    IN IF p = <<>> \/ transcript = <<>>
       THEN [ret |-> transcript, raised |-> FALSE, requests |-> 0]
       ELSE IF backend.kind = "no_client"
       THEN [ret |-> <<>>, raised |-> TRUE, requests |-> 0]
       ELSE IF backend.kind \in {"raises", "no_text"}
       THEN [ret |-> <<>>, raised |-> TRUE, requests |-> 1]
       ELSE [ret |-> IF Strip(backend.text) # <<>> THEN Strip(backend.text)
                     ELSE transcript,
             raised |-> FALSE, requests |-> 1]

\* postprocess(transcript, prompt): what it returns, whether it raises, and
\* how many backend requests it issues
postprocess(transcript, prompt, backend) ==
    LET p == Strip(prompt)
    IN IF p = <<>> \/ transcript = <<>>
       THEN [ret |-> transcript, raised |-> FALSE, requests |-> 0]
       ELSE IF backend.kind = "no_client"
       THEN [ret |-> transcript, raised |-> FALSE, requests |-> 0]
       ELSE IF backend.kind \in {"raises", "no_text"}
       THEN [ret |-> transcript, raised |-> FALSE, requests |-> 1]
       ELSE [ret |-> IF Strip(backend.text) # <<>> THEN Strip(backend.text)
                     ELSE transcript,
             raised |-> FALSE, requests |-> 1]

PostInit ==
    /\ rec = RecorderInit
    /\ queues = <<EmptyQueue>>
    /\ dev = DeviceInit
    /\ lastOp = NoOp
    /\ ControllerInit
    /\ kbd = ListenerInit(FALSE)
    /\ thr = ThreadsInit
    /\ tap = TapInit
    /\ \E transcript \in Texts, prompt \in Texts, backend \in Backends :
           call = [fn |-> "postprocess", pc |-> "call",
                   transcript |-> transcript, prompt |-> prompt,
                   backend |-> backend,
                   out |-> [ret |-> <<>>, raised |-> FALSE, requests |-> 0]]

CallPostprocess ==
    /\ call.fn = "postprocess"
    /\ call.pc = "call"
    /\ call' = [call EXCEPT
                  !.pc = "returned",
                  !.out = postprocess(call.transcript, call.prompt, call.backend)]
    /\ UNCHANGED <<rec, queues, dev, lastOp, generation, is_recording,
                   active_job, jobs, waiters, uiQueue, timers, overlay,
                   clipboard, status, event, kbd, thr, tap>>

PostNext == CallPostprocess

SpecPost == PostInit /\ [][PostNext]_vars

\* the backend call failed: no client, an exception, or no text in the answer
BackendFails == call.backend.kind \in {"no_client", "raises", "no_text"}

\* C13: postprocess never raises; it returns the transcript unchanged, with
\* no backend request, when the instruction is empty (or only whitespace) or
\* the transcript is empty; and it returns the transcript unchanged when the
\* backend call fails.
C13_PostprocessNoOp ==
    (call.fn = "postprocess" /\ call.pc = "returned") =>
        /\ ~call.out.raised
        /\ (Strip(call.prompt) = <<>> \/ call.transcript = <<>>) =>
               call.out.ret = call.transcript /\ call.out.requests = 0
        /\ BackendFails => call.out.ret = call.transcript

\* postprocess returned after a request that the backend failed, with an
\* instruction and a transcript that are not empty
C13_Witness ==
    /\ call.fn = "postprocess"
    /\ call.pc = "returned"
    /\ Strip(call.prompt) # <<>>
    /\ call.transcript # <<>>
    /\ call.backend.kind = "raises"
    /\ call.out.requests = 1
    /\ call.out.ret = call.transcript

(* ------------------- transcribe_streaming (SpecStream) ----------------- *)

\* responses of one streaming call, and results in one response
MaxStreamResponses == 2
MaxResults == 2

\* transcripts of a result's top alternative
Words == {<<>>, <<" ">>, <<"a">>, <<"b">>}

\* a result: without alternatives, or with a top alternative and is_final
Results ==
    {[alternatives |-> FALSE, transcript |-> <<>>, is_final |-> FALSE]}
        \cup {[alternatives |-> TRUE, transcript |-> w, is_final |-> f] :
                  w \in Words, f \in BOOLEAN}

\* a response: its results
Responses == UNION {[1..n -> Results] : n \in 0..MaxResults}

ResponseStreams == UNION {[1..n -> Responses] : n \in 0..MaxStreamResponses}

\* "".join(parts)
RECURSIVE Join(_)
Join(parts) == IF parts = <<>> THEN <<>> ELSE Head(parts) \o Join(Tail(parts))

\* the inner loop with interim results appended to final_transcripts too
RECURSIVE Parts_any(_, _)
Parts_any(results, final) ==
    IF results = <<>> THEN <<>>
    ELSE LET r == Head(results)
         IN IF r.alternatives
            THEN <<r.transcript>> \o Parts_any(Tail(results), final)
            ELSE Parts_any(Tail(results), final)

\* the inner loop over response.results: the transcripts it appends to
\* final_transcripts (final = TRUE) or to interim_parts (final = FALSE)
RECURSIVE Parts(_, _)
Parts(results, final) ==
    IF results = <<>> THEN <<>>
    ELSE LET r == Head(results)
         IN IF r.alternatives /\ r.is_final = final
            THEN <<r.transcript>> \o Parts(Tail(results), final)
            ELSE Parts(Tail(results), final)

\* on_interim(current) called with no try around it: what it raises leaves
\* the response loop
CallbackEscapes_unguarded(raises) == raises

\* try: on_interim(current) / except Exception: pass: whether an exception
\* of the callback leaves the response loop
CallbackEscapes(raises) == FALSE

\* the response loop after its first n responses: final_transcripts, the
\* texts given to on_interim in call order, and whether an exception of the
\* callback has ended the loop; cb_raises: the callback raises when called
RECURSIVE Loop(_, _, _)
Loop(responses, n, cb_raises) ==
    IF n = 0
    THEN [final_transcripts |-> <<>>, interims |-> <<>>, ended |-> FALSE]
    ELSE LET before == Loop(responses, n - 1, cb_raises)
             finals == before.final_transcripts \o Parts(responses[n], TRUE)
             current == Strip(Join(finals \o Parts(responses[n], FALSE)))
         IN IF before.ended THEN before
            ELSE [final_transcripts |-> finals,
                  interims |-> Append(before.interims, current),
                  ended |-> CallbackEscapes(cb_raises)]

\* what transcribe_streaming returns: a str, or None
Str(text) == [none |-> FALSE, text |-> text]

NoneResult == [none |-> TRUE, text |-> <<>>]

\* transcribe_streaming(): client_ok: _get_client() succeeds; fails: the
\* backend raises after the loop has taken seen responses (from
\* streaming_recognize, the request stream or the response iterator);
\* cb_raises: on_interim raises whenever it is called
transcribe_streaming(client_ok, responses, fails, seen, cb_raises) ==
    IF ~client_ok
    THEN [ret |-> NoneResult, raised |-> FALSE, interims |-> <<>>]
    ELSE LET end == Loop(responses, IF fails THEN seen ELSE Len(responses),
                        cb_raises)
             full_text == Strip(Join(end.final_transcripts))
         IN [ret |-> IF full_text # <<>> THEN Str(full_text) ELSE NoneResult,
             raised |-> FALSE, interims |-> end.interims]

StreamInit ==
    /\ rec = RecorderInit
    /\ queues = <<EmptyQueue>>
    /\ dev = DeviceInit
    /\ lastOp = NoOp
    /\ ControllerInit
    /\ kbd = ListenerInit(FALSE)
    /\ thr = ThreadsInit
    /\ tap = TapInit
    /\ \E client_ok \in BOOLEAN, responses \in ResponseStreams, fails \in BOOLEAN :
         \E seen \in 0..Len(responses), cb_raises \in BOOLEAN :
           /\ ~fails => seen = Len(responses)
           /\ ~client_ok => (~fails /\ responses = <<>>)
           /\ call = [fn |-> "transcribe_streaming", pc |-> "call",
                      client_ok |-> client_ok, responses |-> responses,
                      fails |-> fails, seen |-> seen, cb_raises |-> cb_raises,
                      out |-> [ret |-> NoneResult, raised |-> FALSE,
                               interims |-> <<>>]]

CallTranscribe ==
    /\ call.fn = "transcribe_streaming"
    /\ call.pc = "call"
    /\ call' = [call EXCEPT
                  !.pc = "returned",
                  !.out = transcribe_streaming(call.client_ok, call.responses,
                                               call.fails, call.seen,
                                               call.cb_raises)]
    /\ UNCHANGED <<rec, queues, dev, lastOp, generation, is_recording,
                   active_job, jobs, waiters, uiQueue, timers, overlay,
                   clipboard, status, event, kbd, thr, tap>>

StreamNext == CallTranscribe

SpecStream == StreamInit /\ [][StreamNext]_vars

Returned == call.fn = "transcribe_streaming" /\ call.pc = "returned"

\* C14 as stated: if the backend raises at any point of a streaming call
\* (client creation, request stream, any response), transcribe_streaming
\* does not raise and its outcome is "no transcript".
C14_ErrorMeansNoTranscript ==
    (Returned /\ (~call.client_ok \/ call.fails)) =>
        ~call.out.raised /\ call.out.ret = NoneResult

\* the top alternatives of the results flagged final, over all responses of
\* the call, in arrival order
FinalWords ==
    LET all == Join(call.responses)
        finals == SelectSeq(all, LAMBDA r : r.alternatives /\ r.is_final)
    IN [i \in 1..Len(finals) |-> finals[i].transcript]

LiveNext ==
    \/ Press
    \/ Release
    \/ on_cancel_all
    \/ \E j \in 1..Len(jobs) : WorkerGet(j)
    \/ \E j \in 1..Len(jobs) : WorkerEnd(j)
    \/ \E w \in 1..Len(waiters) : WaiterJoin(w)
    \/ HandleSignal
    \/ \E i \in 1..Len(timers) : TimerFire(i)
    \/ AudioChunk

\* the Qt event loop fires every running timer, and a request generator
\* whose queue holds an item gets to read it
Fairness ==
    /\ WF_vars(\E i \in 1..Len(timers) : TimerFire(i))
    /\ \A j \in 1..MaxJobs : WF_vars(j <= Len(jobs) /\ WorkerGet(j))

SpecLive == Init /\ [][LiveNext]_vars /\ Fairness

\* session j was released, cancelled, or superseded by a later start
SessionOver(j) ==
    /\ j <= Len(jobs)
    /\ \/ jobs[j].released
       \/ jobs[j].gen0 < generation
       \/ j < Len(jobs)

\* the request generator of session j has read a sentinel and terminated, or
\* the streaming call it feeds has ended
GeneratorDone(j) ==
    /\ j <= Len(jobs)
    /\ jobs[j].eos \/ jobs[j].pc = "done"

\* C16: with timers that eventually fire, the request generator of every
\* session that is released, cancelled or superseded eventually reads a
\* sentinel from its queue and terminates (unless the streaming call that
\* drives it has ended first).
C16_GeneratorTerminates ==
    \A j \in 1..MaxJobs : SessionOver(j) ~> GeneratorDone(j)

\* the generator of a released session read the chunk and then the sentinel
\* of its queue while its streaming call was still running
C16_Witness ==
    /\ Len(jobs) >= 1
    /\ jobs[1].released
    /\ jobs[1].eos
    /\ jobs[1].pc = "streaming"
    /\ Chunks(jobs[1].queue) = 1
    /\ queues[jobs[1].queue].rd = 2

(* ------------------ more controller claims (Spec) ---------------------- *)

\* C17: whatever state on_cancel_all runs in, it leaves the generation
\* exactly one higher, the controller not recording and without an active
\* job, the recorder not recording with its stream closed, the overlay
\* cleared and hidden, the status idle, and no tracked timer running.
C17_CancelEndsIdle ==
    [][generation' # generation =>
         /\ generation' = generation + 1
         /\ ~is_recording'
         /\ active_job' = None
         /\ ~rec'.recording
         /\ rec'.stream = None
         /\ dev'.open = {}
         /\ overlay'.segments = <<>>
         /\ ~overlay'.visible
         /\ status' = "idle"
         /\ \A i \in 1..Len(timers') : ~timers'[i].tracked]_vars

\* a cancel ran while the second session was recording and the first one's
\* restore was pending: the second session was never released, the
\* clipboard still holds the first transcript
C17_Witness ==
    /\ generation = 1
    /\ Len(jobs) = 2
    /\ ~jobs[2].released
    /\ clipboard = jobs[1].result_box
    /\ clipboard # USER
    /\ ~rec.recording
    /\ dev.open = {}
    /\ Sentinels(jobs[2].queue) = 1
    /\ overlay.segments = <<>>
    /\ status = "idle"

\* the session a display segment was opened for: every accepted press opens
\* one segment and starts one session
SegmentSession(sg) == sg.id + 1

\* C18 as stated: interim text produced by the streaming worker of a session
\* that was cancelled or already released is never written into the live
\* display segment of a later session: the text of an active segment comes
\* from the responses of its own session only.
C18_NoStaleInterim ==
    \A i \in 1..Len(overlay.segments) :
        LET sg == overlay.segments[i]
        IN sg.state = "active" =>
               \A k \in 1..Len(sg.text) :
                   sg.text[k] \in {SegmentSession(sg), -SegmentSession(sg)}

\* the interim signals of session j in a signal queue, in queue order
InterimsOf(q, j) == SelectSeq(q, LAMBDA s : s.sig = "interim" /\ s.job = j)

\* the interim signals of session j still queued are the last ones its
\* worker produced, one per response, in production order
InterimsInOrder ==
    \A j \in 1..Len(jobs) :
        LET pending == InterimsOf(uiQueue, j)
        IN \A k \in 1..Len(pending) :
               pending[k].seq = jobs[j].nresp - Len(pending) + k

\* a step of the UI thread that takes an interim signal applies with
\* set_text the oldest one not yet applied
InterimApplied ==
    (uiQueue # <<>> /\ uiQueue' = Tail(uiQueue) /\ Head(uiQueue).sig = "interim")
        => LET s == Head(uiQueue)
           IN /\ s.seq = jobs[s.job].nresp - Len(InterimsOf(uiQueue, s.job)) + 1
              /\ overlay' = set_text(overlay, s.text)

\* C19: within one session the interim texts reach set_text in exactly the
\* order the streaming worker produced them, one per backend response, none
\* skipped or reordered.
C19_InterimOrder == []InterimsInOrder /\ [][InterimApplied]_vars

\* both responses of one session are queued, the older one first with a
\* different text
C19_Witness ==
    /\ Len(jobs) = 1
    /\ jobs[1].nresp = 2
    /\ Len(uiQueue) = 2
    /\ uiQueue[1].sig = "interim"
    /\ uiQueue[2].sig = "interim"
    /\ uiQueue[1].seq = 1
    /\ uiQueue[2].seq = 2
    /\ uiQueue[1].text # uiQueue[2].text


(* ------------- the hotkey listener and the paste injector (SpecKeys) ---- *)

\* the keys of the keyboard: two Ctrl keys, one Cmd key, a main key, Escape
Keys == {"ctrl_l", "ctrl_r", "cmd_l", "r", "esc"}

\* _MODIFIER_MAP: left and right modifier keys share one canonical string
IsModifier(key) == key \in {"ctrl_l", "ctrl_r", "cmd_l"}

MODIFIER_MAP(key) == IF key = "cmd_l" THEN "cmd" ELSE "ctrl"

\* the combos the settings window can set
Combos == {NoCombo,
           [modifiers |-> {"ctrl"}, main_key |-> "r"],
           [modifiers |-> {"cmd"}, main_key |-> "r"]}

\* HotkeyCombo.is_valid
is_valid(combo) == combo.main_key # "none"

\* _on_press that looks at capture mode before it looks for Escape
on_press_capture_first(L, key, double) ==
    IF L.capture_mode THEN [L EXCEPT !.signal = "key_event"]
    ELSE IF key = "esc" THEN [L EXCEPT !.signal = "cancel_requested"]
    ELSE IF IsModifier(key)
         THEN [L EXCEPT !.active_modifiers = @ \cup {MODIFIER_MAP(key)}]
    ELSE L

\* HotkeyListener._on_press; double: the press comes within 400 ms of the
\* last accepted one
on_press(L, key, double) ==
    IF key = "esc" THEN [L EXCEPT !.signal = "cancel_requested"]
    ELSE IF L.capture_mode THEN [L EXCEPT !.signal = "key_event"]
    ELSE IF IsModifier(key)
         THEN [L EXCEPT !.active_modifiers = @ \cup {MODIFIER_MAP(key)}]
    ELSE IF ~is_valid(L.combo) THEN L
    ELSE IF /\ key = L.combo.main_key
            /\ L.active_modifiers = L.combo.modifiers
            /\ ~L.main_key_down
         THEN [L EXCEPT !.main_key_down = TRUE,
                        !.signal = IF double THEN "hotkey_double_pressed"
                                   ELSE "hotkey_pressed"]
    ELSE L

\* HotkeyListener._on_release
on_release(L, key) ==
    IF L.capture_mode THEN [L EXCEPT !.signal = "key_event"]
    ELSE IF IsModifier(key)
         THEN LET M == [L EXCEPT !.active_modifiers = @ \ {MODIFIER_MAP(key)}]
              IN IF L.main_key_down
                 THEN [M EXCEPT !.main_key_down = FALSE,
                                !.signal = "hotkey_released"]
                 ELSE M
    ELSE IF ~is_valid(L.combo) THEN L
    ELSE IF key = L.combo.main_key /\ L.main_key_down
         THEN [L EXCEPT !.main_key_down = FALSE, !.signal = "hotkey_released"]
    ELSE L

\* the listener before a step: the last signal and the last injection are
\* forgotten
Step(op) == [kbd EXCEPT !.signal = "none", !.op = op, !.sent = <<>>]

\* the listener after a callback, with the signal it emitted noted
Emitted(L) ==
    [L EXCEPT !.pressed =
        IF L.signal \in {"hotkey_pressed", "hotkey_double_pressed"} THEN TRUE
        ELSE IF L.signal = "hotkey_released" THEN FALSE
        ELSE @]

\* the user presses a key that is up: pynput calls _on_press
KeyDown(key) ==
    /\ key \notin kbd.down
    /\ \E double \in BOOLEAN :
           kbd' = Emitted(on_press([Step("press") EXCEPT !.down = @ \cup {key}],
                                   key, double))
    /\ UNCHANGED <<rec, queues, dev, lastOp, generation, is_recording,
                   active_job, jobs, waiters, uiQueue, timers, overlay,
                   clipboard, status, event, call, thr, tap>>

\* a key that is held down repeats: pynput calls _on_press again
KeyRepeat(key) ==
    /\ key \in kbd.down
    /\ \E double \in BOOLEAN :
           kbd' = Emitted(on_press(Step("repeat"), key, double))
    /\ UNCHANGED <<rec, queues, dev, lastOp, generation, is_recording,
                   active_job, jobs, waiters, uiQueue, timers, overlay,
                   clipboard, status, event, call, thr, tap>>

\* the user releases a key that is down: pynput calls _on_release
KeyUp(key) ==
    /\ key \in kbd.down
    /\ kbd' = Emitted(on_release([Step("release") EXCEPT !.down = @ \ {key}],
                                 key))
    /\ UNCHANGED <<rec, queues, dev, lastOp, generation, is_recording,
                   active_job, jobs, waiters, uiQueue, timers, overlay,
                   clipboard, status, event, call, thr, tap>>

\* HotkeyListener.set_hotkey
set_hotkey(combo) ==
    /\ kbd' = [Step("set_hotkey") EXCEPT !.combo = combo,
                                         !.main_key_down = FALSE]
    /\ UNCHANGED <<rec, queues, dev, lastOp, generation, is_recording,
                   active_job, jobs, waiters, uiQueue, timers, overlay,
                   clipboard, status, event, call, thr, tap>>

\* HotkeyListener.set_capture_mode
set_capture_mode(enabled) ==
    /\ kbd' = [Step("set_capture_mode") EXCEPT !.capture_mode = enabled]
    /\ UNCHANGED <<rec, queues, dev, lastOp, generation, is_recording,
                   active_job, jobs, waiters, uiQueue, timers, overlay,
                   clipboard, status, event, call, thr, tap>>

\* the string and the key of the paste modifier on the platform
paste_mod_str(L) == IF L.is_macos THEN "cmd" ELSE "ctrl"

KeyEvent(act, key) == [act |-> act, key |-> key]

\* _do_insert._do_paste, the 80 ms timer callback; stale: the generation
\* moved since _do_insert. The listener sees an injected modifier pressed
\* and released again, which leaves _active_modifiers as it was.
do_insert_paste(stale) ==
    LET needs_modifier == paste_mod_str(kbd) \notin kbd.active_modifiers
        mod == paste_mod_str(kbd)
    IN /\ kbd' = IF stale THEN Step("stale_paste")
                 ELSE [Step("paste") EXCEPT !.sent =
                          (IF needs_modifier THEN <<KeyEvent("press", mod)>>
                           ELSE <<>>)
                          \o <<KeyEvent("press", "v"), KeyEvent("release", "v")>>
                          \o (IF needs_modifier
                              THEN <<KeyEvent("release", mod)>> ELSE <<>>)]
       /\ UNCHANGED <<rec, queues, dev, lastOp, generation, is_recording,
                      active_job, jobs, waiters, uiQueue, timers, overlay,
                      clipboard, status, event, call, thr, tap>>

KeysInit ==
    /\ rec = RecorderInit
    /\ queues = <<EmptyQueue>>
    /\ dev = DeviceInit
    /\ lastOp = NoOp
    /\ generation = 0
    /\ is_recording = FALSE
    /\ active_job = None
    /\ jobs = <<>>
    /\ waiters = <<>>
    /\ uiQueue = <<>>
    /\ timers = <<>>
    /\ overlay = OverlayInit
    /\ clipboard = USER
    /\ status = "idle"
    /\ event = NoEvent
    /\ call = NoCall
    /\ \E is_macos \in BOOLEAN : kbd = ListenerInit(is_macos)
    /\ thr = ThreadsInit
    /\ tap = TapInit

KeysNext ==
    \/ \E key \in Keys : KeyDown(key)
    \/ \E key \in Keys : KeyRepeat(key)
    \/ \E key \in Keys : KeyUp(key)
    \/ \E combo \in Combos : set_hotkey(combo)
    \/ \E enabled \in BOOLEAN : set_capture_mode(enabled)
    \/ \E stale \in BOOLEAN : do_insert_paste(stale)

SpecKeys == KeysInit /\ [][KeysNext]_vars

\* a key of the modifier is physically held down
PhysicallyHeld(modifier) ==
    \E key \in kbd.down : IsModifier(key) /\ MODIFIER_MAP(key) = modifier

\* C20 as stated: when the paste keystroke is synthesized, the injector
\* presses and releases the paste modifier around "v" if and only if that
\* modifier is not physically held down at that moment; when it is held, only
\* "v" is pressed and released.
C20_ModifierIffNotHeld ==
    kbd.op = "paste" =>
        LET mod == paste_mod_str(kbd)
        IN IF PhysicallyHeld(mod)
           THEN kbd.sent = <<KeyEvent("press", "v"), KeyEvent("release", "v")>>
           ELSE kbd.sent = <<KeyEvent("press", mod), KeyEvent("press", "v"),
                             KeyEvent("release", "v"), KeyEvent("release", mod)>>


(* ---------------- every hotkey press and release (SpecHotkey) ---------- *)

\* the hotkey_pressed signal reaches on_start_recording in any state, with or
\* without an API key, the device opening or not
HotkeyPressed == \E has_key \in BOOLEAN, ok \in BOOLEAN : on_start_recording(has_key, ok)

\* the hotkey_released signal reaches on_stop_recording in any state
HotkeyReleased == \E prompt \in BOOLEAN : on_stop_recording(prompt)

\* the controller with every press and release, the backend yielding no
\* response
HotkeyNext ==
    \/ HotkeyPressed
    \/ HotkeyReleased
    \/ on_cancel_all
    \/ \E j \in 1..Len(jobs) : WorkerGet(j)
    \/ \E j \in 1..Len(jobs) : WorkerEnd(j)
    \/ \E w \in 1..Len(waiters) : WaiterJoin(w)
    \/ HandleSignal
    \/ \E i \in 1..Len(timers) : TimerFire(i)
    \/ AudioChunk

SpecHotkey == Init /\ [][HotkeyNext]_vars


\* the state of the program a handler can change, event aside
progvars == <<rec, queues, dev, generation, is_recording, active_job, jobs,
              waiters, uiQueue, timers, overlay, clipboard, status>>

\* a session is in its tail delay, transcribing, post-processing or
\* delivering
SessionInFlight ==
    \/ \E i \in 1..Len(timers) : timers[i].kind \in {"finalize", "paste", "restore"}
    \/ waiters # <<>>
    \/ \E i \in 1..Len(uiQueue) : uiQueue[i].sig \in {"done", "failed"}

\* the controller is Idle: it is not recording and no session is in flight
Idle == ~is_recording /\ ~SessionInFlight

\* a step in which on_start_recording started a session
SessionStarted == Len(jobs') = Len(jobs) + 1

\* the step was a hotkey press that the handler ignored
PressIgnored == event'.kind = "press" /\ ~event'.acted

PressWithoutKey ==
    ~is_recording /\ \E ok \in BOOLEAN : on_start_recording(FALSE, ok)

\* C22: a press with no API key configured starts no session: the recorder
\* is not started, no queue is created, no worker is spawned, the controller
\* stays not recording with its generation, and only an error segment is
\* shown (with the timer that dismisses it).
C22_NoKeyNoSession ==
    [][PressWithoutKey =>
          /\ rec' = rec
          /\ queues' = queues
          /\ dev' = dev
          /\ jobs' = jobs
          /\ waiters' = waiters
          /\ active_job' = active_job
          /\ ~is_recording'
          /\ generation' = generation
          /\ status' = status
          /\ uiQueue' = uiQueue
          /\ clipboard' = clipboard
          /\ overlay'.visible
          /\ Len(overlay'.segments) = Len(overlay.segments) + 1
          /\ overlay'.segments[Len(overlay'.segments)].state = "error"
          /\ SubSeq(overlay'.segments, 1, Len(overlay.segments)) = overlay.segments
          /\ Len(timers') = Len(timers) + 1
          /\ timers'[Len(timers')].kind = "error_dismiss"
          /\ SubSeq(timers', 1, Len(timers)) = timers]_vars

\* the first press was made without an API key: the error is shown and
\* nothing was started
C22_Witness ==
    /\ event.kind = "press_no_key"
    /\ jobs = <<>>
    /\ Len(queues) = 1
    /\ dev.made = 0
    /\ ~rec.recording
    /\ Len(overlay.segments) = 1
    /\ overlay.segments[1].state = "error"


\* the step is a hotkey release
ReleaseStep == \E prompt \in BOOLEAN : on_stop_recording(prompt)

\* the tail timer of a queue is running
TailPending(q) ==
    \E i \in 1..Len(timers) : timers[i].kind = "finalize" /\ timers[i].ref = q

WaitFairness ==
    /\ WF_vars(\E w \in 1..Len(waiters) : WaiterJoin(w))
    /\ WF_vars(\E w \in 1..Len(waiters) : \E rewritten \in BOOLEAN :
                   WaiterPostprocess(w, rewritten))

\* the controller with a microphone that delivers no chunk: what the waiters
\* do depends on the backend's responses, not on the audio
WaitNext ==
    \/ Press
    \/ Release
    \/ on_cancel_all
    \/ \E j \in 1..Len(jobs) : WorkerGet(j)
    \/ \E j \in 1..Len(jobs) : \E is_final \in BOOLEAN : WorkerResponse(j, is_final)
    \/ \E j \in 1..Len(jobs) : WorkerEnd(j)
    \/ \E w \in 1..Len(waiters) : WaiterJoin(w)
    \/ \E w \in 1..Len(waiters) : \E rewritten \in BOOLEAN : WaiterPostprocess(w, rewritten)
    \/ HandleSignal
    \/ \E i \in 1..Len(timers) : TimerFire(i)

SpecWait == Init /\ [][WaitNext]_vars /\ WaitFairness

\* the waiter thread of session j is running
HasWaiter(j) == \E w \in 1..Len(waiters) : waiters[w].job = j

\* the waiter thread of session j is running after the step
HasWaiterAfter(j) == \E w \in 1..Len(waiters') : waiters'[w].job = j

\* the waiter thread of session j
WaiterOf(j) == waiters[CHOOSE w \in 1..Len(waiters) : waiters[w].job = j]

\* the step emitted transcription_done or transcription_failed
OutcomeEmitted ==
    /\ Len(uiQueue') = Len(uiQueue) + 1
    /\ uiQueue'[Len(uiQueue')].sig \in {"done", "failed"}

\* the emitted outcome is the one of a released session whose worker has
\* finished and whose waiter ends with it: failed iff the result slot is
\* empty, else done with the slot's text, rewritten only under a prompt,
\* tagged with the session's segment and generation
OutcomeIsRight ==
    OutcomeEmitted =>
        LET s == uiQueue'[Len(uiQueue')]
            j == s.job
        IN /\ j \in 1..Len(jobs)
           /\ jobs[j].released
           /\ jobs[j].pc = "done"
           /\ HasWaiter(j)
           /\ ~HasWaiterAfter(j)
           /\ s.generation = generation
           /\ s.generation = jobs[j].gen0
           /\ s.seg_id = j - 1
           /\ (s.sig = "failed") <=> (jobs[j].result_box = NoText)
           /\ s.sig = "done" =>
                  /\ s.text \in {jobs[j].result_box, Rewrite(jobs[j].result_box)}
                  /\ ~WaiterOf(j).prompt => s.text = jobs[j].result_box

\* a session gets its waiter at its release and never a second one; a waiter
\* that ends without an outcome belongs to a session whose generation was
\* bumped
OneWaiterPerSession ==
    \A j \in 1..Len(jobs) :
        /\ jobs[j].released => jobs'[j].released
        /\ (HasWaiterAfter(j) /\ ~HasWaiter(j)) => ~jobs[j].released /\ jobs'[j].released
        /\ (HasWaiter(j) /\ ~HasWaiterAfter(j) /\ ~OutcomeEmitted)
               => WaiterOf(j).generation # generation

\* no two waiters serve one session
WaitersDistinct ==
    \A v, w \in 1..Len(waiters) : waiters[v].job = waiters[w].job => v = w

\* the streaming worker of session j has finished and its waiter has not
\* yet ended
WaiterReady(j) == j <= Len(jobs) /\ jobs[j].pc = "done" /\ HasWaiter(j)

\* C24: a released session whose generation is not bumped gets exactly one
\* outcome from its waiter once its streaming worker has finished: failure
\* iff the result slot is empty, else one done delivery with the text
\* (post-processed only under a prompt) tagged with the session's segment id
\* and generation; the waiter ends in every case.
C24_OneOutcome ==
    /\ [][OutcomeIsRight /\ OneWaiterPerSession]_vars
    /\ []WaitersDistinct
    /\ \A j \in 1..MaxJobs : WaiterReady(j) ~> ~HasWaiter(j)

\* both outcomes are queued: the first session's result slot was empty, the
\* second session delivers a rewritten text
C24_Witness ==
    /\ Len(uiQueue) = 2
    /\ uiQueue[1].sig = "failed"
    /\ uiQueue[1].job = 1
    /\ uiQueue[2].sig = "done"
    /\ uiQueue[2].job = 2
    /\ uiQueue[2].text = Rewrite(jobs[2].result_box)
    /\ waiters = <<>>
    /\ generation = 0


\* the session being recorded is the one started last: the active job is
\* its job, not released, and it streams from the recorder's queue
RecordingSessionIsActiveJob ==
    is_recording =>
        /\ active_job = Len(jobs)
        /\ active_job # None
        /\ ~jobs[active_job].released
        /\ jobs[active_job].queue = rec.audio_queue

\* a result slot holds text of its own session's worker only, and holds
\* none while that worker runs
SlotsAreOwn ==
    \A j \in 1..Len(jobs) :
        /\ \A k \in 1..Len(jobs[j].result_box) : jobs[j].result_box[k] = j
        /\ jobs[j].pc = "streaming" => jobs[j].result_box = NoText

\* a slot starts empty and is written in one step only: the one in which its
\* session's worker ends, with that worker's finals
SlotWrittenOnce ==
    /\ Len(jobs') > Len(jobs) => jobs'[Len(jobs')].result_box = NoText
    /\ \A j \in 1..Len(jobs) :
           jobs'[j].result_box # jobs[j].result_box =>
               /\ jobs[j].pc = "streaming"
               /\ jobs'[j].pc = "done"
               /\ jobs'[j].result_box = jobs[j].finals
    /\ \A j \in 1..Len(jobs) : jobs[j].pc = "done" => jobs'[j].pc = "done"

\* the waiter of session j is past its join: it has read the slot
HasRead(j) == HasWaiter(j) => WaiterOf(j).pc # "join"

HasReadAfter(j) ==
    \A w \in 1..Len(waiters') : waiters'[w].job = j => waiters'[w].pc # "join"

\* a waiter reads the slot of its session, and only once the worker of that
\* session has ended
ReadAfterJoin ==
    \A j \in 1..Len(jobs) :
        (HasWaiter(j) /\ ~HasRead(j) /\ HasReadAfter(j)) => jobs[j].pc = "done"

\* a waiter started by a release holds the job of the session that was
\* recording
WaiterHoldsReleasedSession ==
    Len(waiters') > Len(waiters) =>
        /\ is_recording
        /\ waiters'[Len(waiters')].job = Len(jobs)
        /\ jobs[Len(jobs)].queue = rec.audio_queue

\* C25: every session has its own result slot, empty at first and written
\* once, by the session's streaming worker when it ends; a waiter reads the
\* slot only after that worker has ended; and the waiter started at a
\* release holds the job (thread and slot) of the session being released.
C25_OwnResultSlot ==
    /\ [](RecordingSessionIsActiveJob /\ SlotsAreOwn /\ WaitersDistinct)
    /\ [][SlotWrittenOnce /\ ReadAfterJoin /\ WaiterHoldsReleasedSession]_vars

\* two sessions have ended with different texts in their slots, and the
\* waiter of the second one is past its join while the first one's is not
C25_Witness ==
    /\ Len(jobs) = 2
    /\ jobs[1].pc = "done"
    /\ jobs[2].pc = "done"
    /\ jobs[1].result_box = <<1>>
    /\ jobs[2].result_box = <<2>>
    /\ Len(waiters) = 2
    /\ waiters[1].job = 1
    /\ waiters[1].pc = "join"
    /\ waiters[2].job = 2
    /\ waiters[2].pc = "postprocess"
    /\ waiters[2].text = <<2>>


\* C26: the generation counter never decreases; a step changes it only if
\* it is on_cancel_all, which adds exactly one; press, release, timers,
\* deliveries and the worker and waiter threads leave it as it is.
C26_GenerationMonotonic ==
    [][/\ generation' >= generation
       /\ generation' # generation => (on_cancel_all /\ generation' = generation + 1)
       /\ on_cancel_all => generation' = generation + 1
       /\ (\/ Press
           \/ Release
           \/ HandleSignal
           \/ \E i \in 1..Len(timers) : TimerFire(i)
           \/ \E j \in 1..Len(jobs) : WorkerEnd(j)
           \/ \E w \in 1..Len(waiters) : WaiterJoin(w)) => generation' = generation]_vars

\* after the one cancel a whole session ran, from its press to the restore
\* of the clipboard, and the counter still has the value the cancel gave it
C26_Witness ==
    /\ generation = 1
    /\ Len(jobs) = 2
    /\ jobs[1].gen0 = 0
    /\ jobs[2].gen0 = 1
    /\ jobs[2].pc = "done"
    /\ event.kind = "restore"
    /\ event.acted
    /\ event.job = 2


\* the generation that was current when session j was started by its press
PressGeneration(j) == jobs[j].gen0

\* C27: the generation a session's waiter, delivery, paste and restore are
\* checked against is the one that was current at the session's press: every
\* waiter, every queued outcome and every paste and restore timer carries the
\* generation of its session's press.
C27_GenerationOfPress ==
    /\ \A w \in 1..Len(waiters) :
           /\ waiters[w].job \in 1..Len(jobs)
           /\ waiters[w].generation = PressGeneration(waiters[w].job)
    /\ \A i \in 1..Len(uiQueue) :
           uiQueue[i].sig \in {"done", "failed"} =>
               uiQueue[i].generation = PressGeneration(uiQueue[i].job)
    /\ \A i \in 1..Len(timers) :
           timers[i].kind \in {"paste", "restore"} =>
               timers[i].gen = PressGeneration(timers[i].job)

\* a session pressed after a cancel has its waiter running, next to the
\* waiter of a session pressed before the cancel
C27_Witness ==
    /\ generation = 1
    /\ Len(waiters) = 2
    /\ waiters[1].generation = 0
    /\ waiters[2].generation = 1
    /\ waiters[1].job = 1
    /\ waiters[2].job = 2


\* C28 as stated: when the input device does not open inside start(), the
\* error reaches the caller of start() and the session never reaches
\* Recording: no worker is spawned and the system is left Idle: the controller
\* not recording, the recorder not marked recording, no recording status
\* shown.
C28_DeviceErrorLeavesIdle ==
    event.kind = "press_raised" =>
        /\ ~is_recording
        /\ \A j \in 1..Len(jobs) : jobs[j].queue # rec.audio_queue
        /\ ~rec.recording
        /\ status # "recording"
        /\ \A i \in 1..Len(overlay.segments) : overlay.segments[i].state # "active"


(* ------------------ more claims on transcribe_streaming ---------------- *)

\* the responses the loop of the call has taken
Taken == IF call.fails THEN call.seen ELSE Len(call.responses)

\* the top alternatives of the results flagged final in the first n
\* responses of the call, in arrival order
FinalsUpTo(n) ==
    LET all == Join(SubSeq(call.responses, 1, n))
        finals == SelectSeq(all, LAMBDA r : r.alternatives /\ r.is_final)
    IN [i \in 1..Len(finals) |-> finals[i].transcript]

\* the top alternatives of the results of response n not flagged final
InterimTail(n) ==
    LET tail == SelectSeq(call.responses[n],
                          LAMBDA r : r.alternatives /\ ~r.is_final)
    IN [i \in 1..Len(tail) |-> tail[i].transcript]

\* the callback is called once per response taken, an exception it raises
\* does not end the stream, and the return value is made of the finals of
\* all responses taken
OncePerResponse ==
    /\ Len(call.out.interims) = Taken
    /\ ~call.out.raised
    /\ call.out.ret = LET text == Strip(Join(FinalsUpTo(Taken)))
                      IN IF text = <<>> THEN NoneResult ELSE Str(text)

\* C29 as stated: for every response the text passed to the interim
\* callback is all finalized text accumulated so far, this response's finals
\* included, followed by the interim results of this response only; the
\* callback is called once per response, and an exception it raises neither
\* ends the stream nor changes the finals or the return value.
C29_InterimText ==
    (Returned /\ call.client_ok) =>
        /\ OncePerResponse
        /\ \A n \in 1..Taken :
               call.out.interims[n] = Join(FinalsUpTo(n) \o InterimTail(n))

\* C29: the text passed to the interim callback for a response is the
\* finalized text accumulated so far followed by the interim results of this
\* response only, with leading and trailing whitespace stripped; the callback
\* is called once per response, and an exception it raises neither ends the
\* stream nor changes the finals or the return value.
C29_InterimTextStripped ==
    (Returned /\ call.client_ok) =>
        /\ OncePerResponse
        /\ \A n \in 1..Taken :
               call.out.interims[n] = Strip(Join(FinalsUpTo(n) \o InterimTail(n)))

\* the callback raised at both responses of a stream: the first held a final
\* and an interim, the second an interim only; both texts were passed, the
\* second one without the first response's interim, and the final came back
C29_Witness ==
    /\ Returned
    /\ call.client_ok
    /\ ~call.fails
    /\ call.cb_raises
    /\ Len(call.responses) = 2
    /\ FinalsUpTo(1) = << <<"a">> >>
    /\ InterimTail(1) = << <<"b">> >>
    /\ InterimTail(2) = << <<" ">> >>
    /\ FinalsUpTo(2) = << <<"a">> >>
    /\ call.out.interims = << <<"a", "b">>, <<"a">> >>
    /\ call.out.ret = Str(<<"a">>)


(* ------------------------ the delivery queue (SpecRec) ----------------- *)

\* C30 as stated: the per-session delivery queue is bounded: it has a
\* capacity, the hardware callback drops the chunk when the queue is full,
\* and the items queued never exceed the capacity however slow the consumer.
C30_QueueBounded ==
    \A q \in 1..Len(queues) :
        qsize(queues, q) > 0 => (maxsize > 0 /\ qsize(queues, q) <= maxsize)


(* ------------------- more claims on the hotkey listener ---------------- *)

\* the fields of HotkeyListener
ListenerState(L) ==
    <<L.combo, L.active_modifiers, L.main_key_down, L.capture_mode>>

\* the step is a key-down event of the Escape key, first or repeated
EscapeDown == KeyDown("esc") \/ KeyRepeat("esc")

\* C32: a press of the cancel key always emits cancel_requested, whatever
\* the listener state (capture mode, held modifiers, main key down, combo),
\* and leaves the listener's own state unchanged.
C32_EscapeAlwaysCancels ==
    [][EscapeDown =>
          /\ kbd'.signal = "cancel_requested"
          /\ ListenerState(kbd') = ListenerState(kbd)]_vars

\* Escape was pressed in capture mode, with a modifier held and tracked, the
\* main key down and a combo set, and cancel_requested was emitted
C32_Witness ==
    /\ kbd.signal = "cancel_requested"
    /\ "esc" \in kbd.down
    /\ kbd.capture_mode
    /\ kbd.main_key_down
    /\ kbd.active_modifiers # {}
    /\ is_valid(kbd.combo)


\* the modifier kinds of which at least one key is physically held
HeldModifiers == {MODIFIER_MAP(key) : key \in {k \in kbd.down : IsModifier(k)}}

\* C34 as stated: after any sequence of key-down and key-up events and
\* capture-mode toggles, the listener's active-modifier set is the set of
\* modifier kinds of which at least one physical key is held.
C34_ActiveModifiersAreHeld == kbd.active_modifiers = HeldModifiers


\* the signals that report a press of the hotkey
PressSignals == {"hotkey_pressed", "hotkey_double_pressed"}

\* C35 as stated: the press and release signals of the listener strictly
\* alternate: hotkey_released is emitted only while a press signal is not
\* yet released, at most once per press, and no press signal is emitted
\* while one is not yet released, repeated key-down events of the held main
\* key included.
C35_SignalsAlternate ==
    [][/\ kbd'.signal = "hotkey_released" => kbd.pressed
       /\ kbd'.signal \in PressSignals => ~kbd.pressed]_vars


(* ------------- the flat-layout recorder, src/recorder.py (SpecFlat) ---- *)

\* AudioRecorder.start() of src/recorder.py; ok: whether the input device
\* opens
flat_start(W, ok) ==
    IF W.rec.recording
    THEN [W EXCEPT !.raised = FALSE]
    ELSE LET newq == Len(W.queues) + 1
             rec1 == [W.rec EXCEPT !.frames = 0, !.audio_queue = newq,
                                   !.recording = TRUE]
             qs1 == Append(W.queues, EmptyQueue)
         IN IF ok
            THEN [rec |-> [rec1 EXCEPT !.stream = W.dev.made + 1],
                  queues |-> [qs1 EXCEPT ![newq].opened = TRUE],
                  dev |-> OpenStream(W.dev), raised |-> FALSE]
            ELSE [rec |-> rec1, queues |-> qs1, dev |-> W.dev, raised |-> TRUE]

FlatCallStart ==
    /\ Len(queues) <= MaxStarts
    /\ \E ok \in BOOLEAN :
         LET W == flat_start(World, ok)
         IN /\ SetWorld(W)
            /\ lastOp' = [name |-> "start", arg |-> IF ok THEN 1 ELSE 0,
                          raised |-> W.raised,
                          pre |-> Before]
    /\ UNCHANGED ctlvars

\* stop(), finalize() and _audio_callback are those of src/audio/recorder.py
FlatNext == FlatCallStart \/ CallStop \/ CallFinalize \/ AudioCallback

SpecFlat == RecInit /\ [][FlatNext]_vars

\* C37: in the flat-layout recorder, start() called while a recording is
\* active returns without changing anything: the current queue is not
\* replaced, no sentinel is pushed, the frame buffer is kept and no second
\* stream is opened.
C37_FlatStartReturns ==
    (lastOp.name = "start" /\ lastOp.pre.rec.recording) =>
        /\ ~lastOp.raised
        /\ rec = lastOp.pre.rec
        /\ queues = lastOp.pre.queues
        /\ dev = lastOp.pre.dev
        /\ dev.peak <= 1

\* start() was called during a recording that had captured a chunk on its
\* open stream: the chunk, the queue and the stream are still there
C37_Witness ==
    /\ lastOp.name = "start"
    /\ lastOp.pre.rec.recording
    /\ rec.recording
    /\ rec.frames > 0
    /\ rec.stream \in dev.open
    /\ queues[rec.audio_queue].log = <<CHUNK>>


(* ----- the recorder with its two threads interleaved (SpecThreads) ----- *)

\* everything the recorder's threads leave alone
appvars == <<lastOp, generation, is_recording, active_job, jobs, waiters,
             uiQueue, timers, overlay, clipboard, status, event, call, kbd,
             tap>>

\* the audio thread is inside _audio_callback of stream s
InCallback(s) == thr.cb # "idle" /\ thr.cb_stream = s

\* start(), the part under the lock: end the running session, replace the
\* queue
StartLock ==
    /\ thr.main = "idle"
    /\ Len(queues) <= MaxStarts
    /\ LET forced == rec.recording
           stream_to_close == IF forced THEN rec.stream ELSE None
       IN /\ rec' = [rec EXCEPT !.frames = 0,
                                !.audio_queue = Len(queues) + 1,
                                !.recording = TRUE]
          /\ queues' = Append(queues, EmptyQueue)
          /\ thr' = [thr EXCEPT !.stream_to_close = stream_to_close,
                                !.old_queue = rec.audio_queue,
                                !.main = IF stream_to_close # None
                                         THEN "start_put" ELSE "start_open"]
    /\ UNCHANGED <<dev, appvars>>

\* start(): old_queue.put(SENTINEL)
StartPut ==
    /\ thr.main = "start_put"
    /\ queues' = Put(queues, thr.old_queue, SENTINEL)
    /\ thr' = [thr EXCEPT !.main = "start_close"]
    /\ UNCHANGED <<rec, dev, appvars>>

\* start(): stream_to_close.stop(); close().  stop() returns when the
\* stream's callback is no longer running
StartClose ==
    /\ thr.main = "start_close"
    /\ ~InCallback(thr.stream_to_close)
    /\ dev' = CloseStream(dev, thr.stream_to_close)
    /\ thr' = [thr EXCEPT !.main = "start_open"]
    /\ UNCHANGED <<rec, queues, appvars>>

\* start(): sd.InputStream(...); stream.start()
StartOpen ==
    /\ thr.main = "start_open"
    /\ \E ok \in BOOLEAN :
         IF ok
         THEN /\ rec' = [rec EXCEPT !.stream = dev.made + 1]
              /\ queues' = [queues EXCEPT ![rec.audio_queue].opened = TRUE]
              /\ dev' = OpenStream(dev)
         ELSE UNCHANGED <<rec, queues, dev>>
    /\ thr' = [thr EXCEPT !.main = "idle", !.stream_to_close = None,
                          !.old_queue = 0]
    /\ UNCHANGED appvars

\* stop(), the part under the lock (a stop() while idle returns here)
StopLock ==
    /\ thr.main = "idle"
    /\ rec.recording
    /\ rec' = [rec EXCEPT !.recording = FALSE]
    /\ thr' = [thr EXCEPT !.main = "stop_close"]
    /\ UNCHANGED <<queues, dev, appvars>>

\* stop(): self._stream.stop(); close(); self._stream = None
StopClose ==
    /\ thr.main = "stop_close"
    /\ ~InCallback(rec.stream)
    /\ dev' = IF rec.stream # None THEN CloseStream(dev, rec.stream) ELSE dev
    /\ rec' = [rec EXCEPT !.stream = None]
    /\ thr' = [thr EXCEPT !.main = "stop_put"]
    /\ UNCHANGED <<queues, appvars>>

\* stop(): self.audio_queue.put(SENTINEL), then the frames are taken
StopPut ==
    /\ thr.main = "stop_put"
    /\ queues' = Put(queues, rec.audio_queue, SENTINEL)
    /\ rec' = [rec EXCEPT !.frames = 0]
    /\ thr' = [thr EXCEPT !.main = "idle"]
    /\ UNCHANGED <<dev, appvars>>

\* finalize(queue_ref), the part under the lock
FinalizeLock ==
    /\ thr.main = "idle"
    /\ \E queue_ref \in 1..Len(queues) :
         /\ Len(queues[queue_ref].log) < MaxLog
         /\ LET should_stop_stream ==
                    rec.recording /\ rec.audio_queue = queue_ref
            IN /\ rec' = IF should_stop_stream
                         THEN [rec EXCEPT !.recording = FALSE] ELSE rec
               /\ thr' = [thr EXCEPT !.queue_ref = queue_ref,
                                     !.should_stop_stream = should_stop_stream,
                                     !.main = "finalize_close"]
    /\ UNCHANGED <<queues, dev, appvars>>

\* finalize(): stop and close the stream if this call ended the session
FinalizeClose ==
    /\ thr.main = "finalize_close"
    /\ IF thr.should_stop_stream /\ rec.stream # None
       THEN /\ ~InCallback(rec.stream)
            /\ dev' = CloseStream(dev, rec.stream)
            /\ rec' = [rec EXCEPT !.stream = None]
       ELSE UNCHANGED <<rec, dev>>
    /\ thr' = [thr EXCEPT !.main = "finalize_put"]
    /\ UNCHANGED <<queues, appvars>>

\* finalize(): queue_ref.put(SENTINEL)
FinalizePut ==
    /\ thr.main = "finalize_put"
    /\ queues' = Put(queues, thr.queue_ref, SENTINEL)
    /\ thr' = [thr EXCEPT !.main = "idle", !.queue_ref = 0,
                          !.should_stop_stream = FALSE]
    /\ UNCHANGED <<rec, dev, appvars>>

\* _audio_callback, the part under the lock: an open stream delivers a
\* chunk, kept in _frames while recording
CallbackLock ==
    /\ thr.cb = "idle"
    /\ TotalChunks < MaxChunks
    /\ \E s \in dev.open :
         thr' = [thr EXCEPT !.cb = "locked", !.cb_stream = s]
    /\ rec' = IF rec.recording THEN [rec EXCEPT !.frames = @ + 1] ELSE rec
    /\ UNCHANGED <<queues, dev, appvars>>

\* _audio_callback: self.audio_queue is read, outside the lock
CallbackLoad ==
    /\ thr.cb = "locked"
    /\ thr' = [thr EXCEPT !.cb = "loaded", !.cb_queue = rec.audio_queue]
    /\ UNCHANGED <<rec, queues, dev, appvars>>

\* _audio_callback: put_nowait(chunk) on the queue that was read
CallbackPut ==
    /\ thr.cb = "loaded"
    /\ queues' = put_nowait(queues, thr.cb_queue, CHUNK)
    /\ thr' = [thr EXCEPT !.cb = "idle", !.cb_stream = 0, !.cb_queue = 0]
    /\ UNCHANGED <<rec, dev, appvars>>

ThreadsNext ==
    \/ StartLock \/ StartPut \/ StartClose \/ StartOpen
    \/ StopLock \/ StopClose \/ StopPut
    \/ FinalizeLock \/ FinalizeClose \/ FinalizePut
    \/ CallbackLock \/ CallbackLoad \/ CallbackPut

SpecThreads == RecInit /\ [][ThreadsNext]_vars

\* a chunk was put into queue q after a sentinel
ChunkAfterSentinel(q) ==
    \E i, j \in 1..Len(queues[q].log) :
        /\ i < j
        /\ queues[q].log[i] = SENTINEL
        /\ queues[q].log[j] = CHUNK

\* C39: the sentinel is the last item of its queue: in every interleaving
\* of the audio callback with start, stop and finalize, no audio chunk is
\* put into a queue after a sentinel has been put into that queue.
C39_SentinelIsLast ==
    \A q \in 1..Len(queues) : ~ChunkAfterSentinel(q)


(* -------- the tap/hold controller, src/controller.py (SpecTap) --------- *)

\* _TAP_THRESHOLD, in ms: a hold shorter than this is a tap
TAP_THRESHOLD == 400

\* the clock moves in steps of TickMs, up to MaxNow
TickMs == 200
MaxNow == 800

\* time.monotonic() advances
Tick ==
    /\ tap.now < MaxNow
    /\ tap' = [tap EXCEPT !.now = @ + TickMs]
    /\ event' = NoEvent
    /\ UNCHANGED <<rec, queues, dev, lastOp, call, kbd, thr, generation,
                   is_recording, active_job, jobs, waiters, uiQueue, timers,
                   overlay, clipboard, status>>

\* _do_stop_recording(); kind: the handler that called it; has_lock: the
\* TranscriptOverlay in use has the lock() method (the one of
\* src/ui/overlay.py has not: the call raises and the handler ends there)
do_stop_recording(kind, prompt, has_lock) ==
    IF ~is_recording
    THEN /\ event' = Effect(kind, generation, None, NoText, FALSE)
         /\ UNCHANGED <<rec, queues, dev, lastOp, call, kbd, thr, tap,
                        generation, is_recording, active_job, jobs, waiters,
                        uiQueue, timers, overlay, clipboard, status>>
    ELSE LET captured_queue == rec.audio_queue
             job == active_job
         IN /\ is_recording' = FALSE
            /\ timers' = Append(timers, Timer("finalize", TailDelay, FALSE,
                                              generation, captured_queue, <<>>,
                                              job))
            /\ event' = Effect(kind, generation, job, NoText, TRUE)
            /\ IF has_lock
               THEN /\ Len(waiters) < MaxJobs
                    /\ overlay' = dismiss(overlay)
                    /\ status' = "transcribing"
                    /\ waiters' = Append(waiters,
                                     [job |-> job, seg_id |-> -1,
                                      generation |-> generation,
                                      prompt |-> prompt,
                                      pc |-> "join", text |-> NoText])
                    /\ jobs' = [jobs EXCEPT ![job].released = TRUE]
               ELSE UNCHANGED <<overlay, status, waiters, jobs>>
            /\ UNCHANGED <<rec, queues, dev, lastOp, call, kbd, thr, tap,
                           generation, active_job, uiQueue, clipboard>>

\* on_stop_recording() that counts a hold of exactly the threshold as a tap
tap_on_stop_recording_inclusive(prompt, has_lock) ==
    IF ~is_recording
    THEN /\ event' = Effect("release", generation, None, NoText, FALSE)
         /\ UNCHANGED <<rec, queues, dev, lastOp, call, kbd, thr, tap,
                        generation, is_recording, active_job, jobs, waiters,
                        uiQueue, timers, overlay, clipboard, status>>
    ELSE LET elapsed == tap.now - tap.press_time
         IN IF elapsed <= TAP_THRESHOLD
            THEN /\ tap' = [tap EXCEPT !.is_tap_mode = TRUE]
                 /\ event' = Effect("tap", generation, active_job, NoText, TRUE)
                 /\ UNCHANGED <<rec, queues, dev, lastOp, call, kbd, thr,
                                generation, is_recording, active_job, jobs,
                                waiters, uiQueue, timers, overlay, clipboard,
                                status>>
            ELSE do_stop_recording("release", prompt, has_lock)

\* on_stop_recording() of src/controller.py: a hotkey release
tap_on_stop_recording(prompt, has_lock) ==
    IF ~is_recording
    THEN /\ event' = Effect("release", generation, None, NoText, FALSE)
         /\ UNCHANGED <<rec, queues, dev, lastOp, call, kbd, thr, tap,
                        generation, is_recording, active_job, jobs, waiters,
                        uiQueue, timers, overlay, clipboard, status>>
    ELSE LET elapsed == tap.now - tap.press_time
         IN IF elapsed < TAP_THRESHOLD
            THEN /\ tap' = [tap EXCEPT !.is_tap_mode = TRUE]
                 /\ event' = Effect("tap", generation, active_job, NoText, TRUE)
                 /\ UNCHANGED <<rec, queues, dev, lastOp, call, kbd, thr,
                                generation, is_recording, active_job, jobs,
                                waiters, uiQueue, timers, overlay, clipboard,
                                status>>
            ELSE do_stop_recording("release", prompt, has_lock)

\* on_start_recording() of src/controller.py: a hotkey press
tap_on_start_recording(has_key, ok, prompt, has_lock) ==
    IF is_recording
    THEN do_stop_recording("press_stop", prompt, has_lock)
    ELSE IF ~has_key
    THEN /\ overlay.next_id - Len(jobs) < MaxKeyErrors
         /\ overlay' = show_error_at_cursor(overlay)
         /\ timers' = Append(timers, Timer("error_dismiss", ErrorDelay, FALSE,
                                           generation, overlay.next_id, <<>>,
                                           None))
         /\ event' = Effect("press_no_key", generation, None, NoText, FALSE)
         /\ UNCHANGED <<rec, queues, dev, lastOp, call, kbd, thr, tap,
                        generation, is_recording, active_job, jobs, waiters,
                        uiQueue, clipboard, status>>
    ELSE IF ~ok
    THEN \* recorder.start() raises: the lines after it are not run
         /\ DeviceErrors < MaxDeviceErrors
         /\ overlay' = show_at_cursor(overlay)
         /\ status' = "recording"
         /\ SetWorld(start(World, FALSE))
         /\ event' = Effect("press_raised", generation, None, NoText, FALSE)
         /\ UNCHANGED <<lastOp, call, kbd, thr, tap, generation, is_recording,
                        active_job, jobs, waiters, uiQueue, timers, clipboard>>
    ELSE /\ Len(jobs) < MaxJobs
         /\ overlay' = show_at_cursor(overlay)
         /\ status' = "recording"
         /\ LET W == start(World, TRUE)
            IN /\ SetWorld(W)
               /\ jobs' = Append(jobs, NewJob(W.rec.audio_queue))
         /\ is_recording' = TRUE
         /\ tap' = [tap EXCEPT !.press_time = tap.now, !.is_tap_mode = FALSE]
         /\ active_job' = Len(jobs) + 1
         /\ event' = Effect("press", generation, Len(jobs) + 1, NoText, TRUE)
         /\ UNCHANGED <<lastOp, call, kbd, thr, generation, waiters, uiQueue,
                        timers, clipboard>>

TapPressed ==
    \E has_key \in BOOLEAN, ok \in BOOLEAN, prompt \in BOOLEAN,
       has_lock \in BOOLEAN :
        tap_on_start_recording(has_key, ok, prompt, has_lock)

TapReleased ==
    \E prompt \in BOOLEAN, has_lock \in BOOLEAN :
        tap_on_stop_recording(prompt, has_lock)

\* on_cancel_all() of src/controller.py: the statements of the one in
\* src/main.py, and the chat overlay's processing bubbles are cancelled
tap_on_cancel_all == on_cancel_all

\* the tap/hold controller with its timers and the clock
TapNext ==
    \/ TapPressed
    \/ TapReleased
    \/ tap_on_cancel_all
    \/ Tick
    \/ \E i \in 1..Len(timers) : TimerFire(i)

SpecTap == Init /\ [][TapNext]_vars


\* time since the press that started the session, as on_stop_recording
\* computes it
Elapsed == tap.now - tap.press_time

\* the step ended the session: the flag is cleared and the tail finalize of
\* the session's queue is scheduled, no session is started
SessionStopped ==
    /\ ~is_recording'
    /\ Len(jobs') = Len(jobs)
    /\ Len(timers') = Len(timers) + 1
    /\ timers'[Len(timers')].kind = "finalize"
    /\ timers'[Len(timers')].ref = rec.audio_queue
    /\ UNCHANGED <<rec, queues, dev, active_job>>

\* C31: in the tap/hold controller a release less than 400 ms after the
\* press leaves the session recording, in tap mode; the next press, like
\* every press during a recording, stops it and starts no session; a release
\* 400 ms or more after the press stops the recording.
C31_TapOrHold ==
    [][/\ (TapReleased /\ is_recording /\ Elapsed < 400) =>
              /\ is_recording'
              /\ tap'.is_tap_mode
              /\ UNCHANGED <<rec, queues, dev, active_job, jobs, timers,
                             waiters>>
       /\ (TapPressed /\ is_recording) => SessionStopped
       /\ (TapReleased /\ is_recording /\ Elapsed >= 400) => SessionStopped
      ]_vars

\* a session put in tap mode by a short release was stopped by the next
\* press; its tail delay is running
C31_Witness ==
    /\ event.kind = "press_stop"
    /\ event.acted
    /\ tap.is_tap_mode
    /\ ~is_recording
    /\ rec.recording
    /\ \E i \in 1..Len(timers) :
         timers[i].kind = "finalize" /\ timers[i].ref = rec.audio_queue

\* C36: with the recorder of src/audio/recorder.py, whenever the
\* controller's recording flag is set the recorder is recording, its stream
\* is open, and its current queue is the queue the active job's streaming
\* worker was started on.
C36_FlagMeansRecording ==
    is_recording =>
        /\ rec.recording
        /\ rec.stream \in dev.open
        /\ active_job # None
        /\ jobs[active_job].queue = rec.audio_queue

\* a second session is recording while the tail finalize of the first, on
\* the queue the recorder has replaced, is still to fire
C36_Witness ==
    /\ is_recording
    /\ active_job = 2
    /\ rec.stream \in dev.open
    /\ \E i \in 1..Len(timers) :
         /\ timers[i].kind = "finalize"
         /\ timers[i].ref = jobs[1].queue
         /\ timers[i].ref # rec.audio_queue


(* -------------------- overlapping deliveries (Spec) -------------------- *)

\* C33 as stated: also when a second result of the same generation is
\* delivered before the paste or restore timer of the first has fired, each
\* paste keystroke fires while the clipboard holds the text of the delivery
\* that scheduled it, and each restore puts back the contents the user had
\* before any of the deliveries.
C33_OverlappingDeliveries ==
    [][\A i \in 1..Len(timers) :
         (TimerFire(i) /\ timers[i].gen = generation) =>
             /\ timers[i].kind = "paste" => clipboard = timers[i].arg
             /\ timers[i].kind = "restore" => clipboard' = USER
      ]_vars


(* ------------- the tail finalize and the cancel (SpecLive) ------------- *)

\* the running tail-finalize timers, in scheduling order
TailTimers(ts) == SelectSeq(ts, LAMBDA t : t.kind = "finalize")

\* a tail finalize scheduled before the last cancel is still running
StaleTailPending ==
    \E i \in 1..Len(timers) :
        timers[i].kind = "finalize" /\ timers[i].gen < generation

\* the firing of timer i leaves alone every session started after the
\* cancels that followed the scheduling of the timer
LaterSessionsUntouched(i) ==
    \A j \in 1..Len(jobs) :
        jobs[j].gen0 > timers[i].gen =>
            /\ queues'[jobs[j].queue] = queues[jobs[j].queue]
            /\ rec.audio_queue = jobs[j].queue => (rec' = rec /\ dev' = dev)

C38_CancelStep ==
    /\ on_cancel_all => TailTimers(timers') = TailTimers(timers)
    /\ \A i \in 1..Len(timers) :
           (TimerFire(i) /\ timers[i].kind = "finalize") =>
               LaterSessionsUntouched(i)

\* C38: on_cancel_all does not stop the tail finalize scheduled by a
\* release; the timer still fires after the cancel; and when it fires after
\* a cancel and a new press, it neither stops the stream nor puts anything
\* into the queue of the session started after the cancel.
C38_TailFinalizeSurvivesCancel ==
    /\ [][C38_CancelStep]_vars
    /\ StaleTailPending ~> ~StaleTailPending

\* a release, a cancel and a new press: the first session's tail finalize
\* is still to fire while the session started after the cancel is recording
\* on its own queue with its stream open
C38_Witness ==
    /\ generation = 1
    /\ Len(jobs) = 2
    /\ jobs[1].released
    /\ jobs[2].gen0 = 1
    /\ is_recording
    /\ rec.recording
    /\ rec.stream \in dev.open
    /\ rec.audio_queue = jobs[2].queue
    /\ Sentinels(jobs[2].queue) = 0
    /\ \E i \in 1..Len(timers) :
         /\ timers[i].kind = "finalize"
         /\ timers[i].gen = 0
         /\ timers[i].ref = jobs[1].queue

=============================================================================
